---- MODULE Spec2Model ----
(***************************************************************************)
(* Model of the fingerprint daemon's per-device session/action state       *)
(* machine (src/src/device.c) and of the PAM module's verification         *)
(* orchestration (src/pam/pam_fprintd.c).                                  *)
(*                                                                         *)
(* The daemon is single threaded: every D-Bus method call (authorization   *)
(* handler followed by the method handler), every completion callback of   *)
(* the capture library and every name-vanished notification is one         *)
(* dispatch of the GLib main loop and is one action here.  Two handlers    *)
(* (Release and the client-vanished handler) spin a nested main loop       *)
(* (g_main_context_iteration) until current_action is ACTION_NONE; such a  *)
(* handler is a frame on `stack`, and while it waits the other dispatches  *)
(* run nested inside it.                                                   *)
(*                                                                         *)
(* The manager's idle-exit timer (src/src/manager.c) and the atomic slot   *)
(* that holds a device's session (session_data_get, session_data_set_new,  *)
(* session_data_unref) are modelled by specifications of their own.        *)
(***************************************************************************)
EXTENDS Integers, Sequences, FiniteSets, TLC

(* ------------------------------------------------------------------ *)
(* Bounds of the model                                                *)
(* ------------------------------------------------------------------ *)
MaxStack == 2      \* nested main-loop frames that may wait at once
MaxFailq == 1      \* library calls refused at once whose callback is still due
MaxTries == 2      \* the greatest max-tries option of the PAM module
Timeout == 2       \* the timeout option, in ticks of the clock
MaxClock == 5      \* the clock stops here
MaxInbox == 1      \* bus messages that may wait to be dispatched by the module
MaxVerifyCalls == 2  \* calls of do_verify in one run of do_auth_no_pthread
MaxEvents == 2     \* external events of one run that are recorded in order
UIntBits == 3      \* the width of unsigned, scaled down
ULongBits == 4     \* the width of uint64_t and int64_t, scaled down
MaxDevices == 3    \* devices GetDevices may list
MaxPrints == 2     \* templates a device may list for the user
MaxMgrDevices == 2 \* devices the manager may see appear
MaxTimers == 2     \* timeout sources that may be pending at once
MaxHeld == 2       \* references to sessions one thread may hold at once

Callers == {"c1", "c2"}
Fingers == {1, 2}
NoFinger == 0
EnrollFingers == {1}        \* the fingers callers ask to enroll

OsUser(c) == IF c = "c1" THEN "alice" ELSE "bob"
Users == {"alice", "bob"}

RetryCodes == {"TOO_SHORT", "CENTER_FINGER", "REMOVE_FINGER", "GENERAL"}
RetryDrawn == {"TOO_SHORT", "GENERAL"}     \* the retry errors the device reports here

VARIABLES
  (* FprintDevicePrivate *)
  session,                    \* priv->_session (NoSession = NULL)
  current_action,
  current_cancellable,        \* "null" | "active" | "cancelled"
  current_cancel_invocation,  \* NoInv = NULL
  verify_data,                \* finger of the print being verified, NoFinger = NULL
  identify_data,              \* gallery (set of fingers), {} = NULL
  enroll_data,
  clients,                    \* keys of priv->clients
  (* the capture library's device *)
  devOpen,                    \* the device is open
  devOp,                      \* the asynchronous operation the device runs
  failq,                      \* refused calls whose completion callback is due
  supportsIdentify,
  (* the print store on disk *)
  store,                      \* user -> set of enrolled fingers
  (* the main loop *)
  stack,                      \* handlers waiting in a nested main loop
  connected,                  \* bus names still on the bus
  overtake,                   \* method calls that are queued already are dispatched
                              \* ahead of the idle callback of a refused library call
  crashed,                    \* the daemon dereferenced NULL or hit an assertion
  (* history *)
  hist

NoInv == [method |-> "none", sender |-> "none"]
Inv(m, c) == [method |-> m, sender |-> c]
NoSession == [sender |-> "none", username |-> "none",
              invocation |-> NoInv, verify_status_reported |-> FALSE]
NoOp == [kind |-> "none", reported |-> "none", cancelled |-> FALSE]

Reply(inv, r) == [type |-> "reply", name |-> inv.method, to |-> inv.sender,
                  result |-> r, done |-> FALSE]
Signal(n, r, d) == [type |-> "signal", name |-> n, to |-> "all",
                    result |-> r, done |-> d]
LibCall(fn) == [type |-> "call", name |-> fn, to |-> "lib",
                result |-> "", done |-> FALSE]
Polkit(c, r) == [type |-> "polkit", name |-> "check", to |-> c,
                 result |-> r, done |-> FALSE]

devVars == <<session, current_action, current_cancellable,
             current_cancel_invocation, verify_data, identify_data,
             enroll_data, clients, devOpen, devOp, failq,
             supportsIdentify, store, stack, connected, overtake, crashed, hist>>

(* The PAM module (src/pam/pam_fprintd.c) *)
VARIABLES
  opt,       \* the module's options: no_pthread, no_need_enter, max_tries
  data,      \* verify_data
  flags,     \* has_recieved_sigusr1, fingerprint_success, fingerprint_finished
  main,      \* the thread that runs do_auth and do_verify
  pwt,       \* the thread that runs prompt_pw
  bus,       \* the module's bus connection: messages read but not dispatched,
             \* and the VerifyStart calls whose reply is due
  clock,     \* now()
  authtok,   \* the PAM_AUTHTOK item
  ph,        \* history of the module's run
  (* device discovery *)
  listing,   \* what GetDevices lists and each device answers
  od,        \* open_device
  (* the manager (src/src/manager.c) *)
  mgr,       \* FprintManagerPrivate, the devices and the pending timeout sources
  (* the session slot of a device (src/src/device.c, session_data_get and others) *)
  sd         \* priv->_session, the SessionData objects and the threads using them

pamVars == <<opt, data, flags, main, pwt, bus, clock, authtok, ph>>
discVars == <<listing, od>>
mgrVars == <<mgr>>
sessVars == <<sd>>

vars == <<devVars, pamVars, discVars, mgrVars, sessVars>>

(* ------------------------------------------------------------------ *)
(* The daemon's state as one record, so that a handler is a function  *)
(* from the state it finds to the state it leaves.                    *)
(* ------------------------------------------------------------------ *)
Cur == [session |-> session,
        current_action |-> current_action,
        current_cancellable |-> current_cancellable,
        current_cancel_invocation |-> current_cancel_invocation,
        verify_data |-> verify_data,
        identify_data |-> identify_data,
        enroll_data |-> enroll_data,
        clients |-> clients,
        devOpen |-> devOpen,
        devOp |-> devOp,
        failq |-> failq,
        store |-> store,
        stack |-> stack,
        connected |-> connected,
        crashed |-> crashed,
        out |-> <<>>]      \* what the dispatch sends: replies, signals, calls

Emit(s, e) == [s EXCEPT !.out = Append(@, e)]
EmitAll(s, es) == [s EXCEPT !.out = @ \o es]
Crash(s) == [s EXCEPT !.crashed = TRUE]

(* g_dbus_method_invocation_return_*: a NULL invocation is refused by  *)
(* g_return_if_fail and nothing is sent.                              *)
ReplyTo(s, inv, r) == IF inv = NoInv THEN s ELSE Emit(s, Reply(inv, r))

(* g_set_error: an error that is already set is kept (GLib warns).     *)
SetErr(old, new) == IF old = "none" THEN new ELSE old

(* ------------------------------------------------------------------ *)
(* The capture library, at its interface: one operation at a time on  *)
(* an open device; a call it refuses completes with an error from an  *)
(* idle callback; a cancelled operation completes with                *)
(* G_IO_ERROR_CANCELLED.                                              *)
(* ------------------------------------------------------------------ *)
Cancellable == {"verify", "identify", "enroll"}

LibAccepts(s, kind) ==
  /\ s.devOp.kind = "none"
  /\ IF kind = "open" THEN ~s.devOpen ELSE s.devOpen
  /\ kind \in Cancellable => s.current_cancellable # "cancelled"

LibStart(s, kind) ==
  LET s1 == Emit(s, LibCall(kind)) IN
  IF LibAccepts(s, kind)
  THEN [s1 EXCEPT !.devOp = [kind |-> kind, reported |-> "none", cancelled |-> FALSE]]
  ELSE [s1 EXCEPT !.failq = Append(@,
          [kind |-> kind,
           err |-> IF kind \in Cancellable /\ s.current_cancellable = "cancelled"
                   THEN "CANCELLED" ELSE "OTHER"])]

(* g_cancellable_cancel (priv->current_cancellable) *)
CancelCurrent(s) ==
  [s EXCEPT !.current_cancellable = "cancelled",
            !.devOp = IF @.kind \in Cancellable THEN [@ EXCEPT !.cancelled = TRUE] ELSE @]

(* ------------------------------------------------------------------ *)
(* Pure helpers of device.c                                           *)
(* ------------------------------------------------------------------ *)
IsRetry(error) == error \in RetryCodes

verify_result_to_name(match, error) ==
  IF error = "none" THEN (IF match THEN "verify-match" ELSE "verify-no-match")
  ELSE IF IsRetry(error) THEN
    (CASE error = "TOO_SHORT" -> "verify-swipe-too-short"
       [] error = "CENTER_FINGER" -> "verify-finger-not-centered"
       [] error = "REMOVE_FINGER" -> "verify-remove-and-retry"
       [] OTHER -> "verify-retry-scan")
  ELSE IF error = "PROTO" THEN "verify-disconnected"
  ELSE IF error = "CANCELLED" THEN "verify-no-match"
  ELSE "verify-unknown-error"

enroll_result_to_name(completed, enrolled, error) ==
  IF error = "none" THEN
    (IF ~completed THEN "enroll-stage-passed"
     ELSE IF enrolled THEN "enroll-completed" ELSE "enroll-failed")
  ELSE IF IsRetry(error) THEN
    (CASE error = "TOO_SHORT" -> "enroll-swipe-too-short"
       [] error = "CENTER_FINGER" -> "enroll-finger-not-centered"
       [] error = "REMOVE_FINGER" -> "enroll-remove-and-retry"
       [] OTHER -> "enroll-retry-scan")
  ELSE IF error = "PROTO" THEN "enroll-disconnected"
  ELSE IF error = "DATA_FULL" THEN "enroll-data-full"
  ELSE IF error = "CANCELLED" THEN "enroll-failed"
  ELSE "enroll-unknown-error"

(* _fprint_device_check_claimed: the value returned and the error set. *)
(* For the claimed state the value returned is the sender comparison   *)
(* alone; a pending invocation sets the error but not the value.       *)
check_claimed_unclaimed_skipped(s, sender, requested_state) ==
  IF requested_state \in {"IGNORED", "UNCLAIMED"} THEN [ok |-> TRUE, err |-> "none"]
  ELSE IF s.session = NoSession THEN [ok |-> FALSE, err |-> "ClaimDevice"]
  ELSE [ok |-> sender = s.session.sender,
        err |-> IF sender # s.session.sender \/ s.session.invocation # NoInv
                THEN "AlreadyInUse" ELSE "none"]

fprint_device_check_claimed(s, sender, requested_state) ==
  IF requested_state = "IGNORED" THEN [ok |-> TRUE, err |-> "none"]
  ELSE IF requested_state = "UNCLAIMED" THEN
    (IF s.session = NoSession THEN [ok |-> TRUE, err |-> "none"]
     ELSE [ok |-> FALSE, err |-> "AlreadyInUse"])
  ELSE IF s.session = NoSession THEN [ok |-> FALSE, err |-> "ClaimDevice"]
  ELSE [ok |-> sender = s.session.sender,
        err |-> IF sender # s.session.sender \/ s.session.invocation # NoInv
                THEN "AlreadyInUse" ELSE "none"]

(* action_authorization_handler's table *)
RequiredState(method) ==
  CASE method = "Claim" -> "UNCLAIMED"
    [] method \in {"DeleteEnrolledFingers", "ListEnrolledFingers"} -> "IGNORED"
    [] OTHER -> "CLAIMED"

NeedsUserAuth(method) ==
  method \in {"Claim", "DeleteEnrolledFingers", "ListEnrolledFingers"}

(* _fprint_device_check_for_username: the user the call acts for, or   *)
(* the error.  lookupOk: GetConnectionUnixUser and getpwuid succeeded; *)
(* pkSet: polkit grants setusername to the sender.                     *)
check_for_username_unchecked(sender, username, lookupOk, pkSet) ==
  IF ~lookupOk THEN [user |-> "none", err |-> "Internal", asked |-> FALSE]
  ELSE IF username = "" \/ username = OsUser(sender)
       THEN [user |-> OsUser(sender), err |-> "none", asked |-> FALSE]
  ELSE [user |-> username, err |-> "none", asked |-> TRUE]

fprint_device_check_for_username(sender, username, lookupOk, pkSet) ==
  IF ~lookupOk THEN [user |-> "none", err |-> "Internal", asked |-> FALSE]
  ELSE IF username = "" \/ username = OsUser(sender)
       THEN [user |-> OsUser(sender), err |-> "none", asked |-> FALSE]
  ELSE IF ~pkSet THEN [user |-> "none", err |-> "PermissionDenied", asked |-> TRUE]
  ELSE [user |-> username, err |-> "none", asked |-> TRUE]

(* action_authorization_handler: claim state first, then the user,     *)
(* then polkit.  Yields the state after the handler (a refusal has     *)
(* been answered) with the fields go (the method handler runs) and     *)
(* user.                                                               *)
authorization_polkit_first(s, method, sender, username, lookupOk, pkSet, pk) ==
  LET inv == Inv(method, sender)
      chk == fprint_device_check_claimed(s, sender, RequiredState(method))
      s1 == Emit(s, Polkit(sender, IF pk THEN "yes" ELSE "no"))
  IN
  IF ~pk THEN [s |-> ReplyTo(s1, inv, "PermissionDenied"), go |-> FALSE, user |-> "none"]
  ELSE IF ~chk.ok THEN [s |-> ReplyTo(s1, inv, chk.err), go |-> FALSE, user |-> "none"]
  ELSE [s |-> s1, go |-> TRUE, user |-> OsUser(sender)]

action_authorization_handler(s, method, sender, username, lookupOk, pkSet, pk) ==
  LET inv == Inv(method, sender)
      chk == fprint_device_check_claimed(s, sender, RequiredState(method))
      usr == IF NeedsUserAuth(method)
             THEN fprint_device_check_for_username(sender, username, lookupOk, pkSet)
             ELSE [user |-> "none", err |-> "none", asked |-> FALSE]
      s1 == IF usr.asked THEN Emit(s, Polkit(sender, IF pkSet THEN "yes" ELSE "no")) ELSE s
  IN
  IF ~chk.ok THEN [s |-> ReplyTo(s, inv, chk.err), go |-> FALSE, user |-> "none"]
  ELSE IF usr.err # "none" THEN [s |-> ReplyTo(s1, inv, usr.err), go |-> FALSE, user |-> "none"]
  ELSE IF ~pk THEN
    [s |-> ReplyTo(Emit(s1, Polkit(sender, "no")), inv, "PermissionDenied"),
     go |-> FALSE, user |-> "none"]
  ELSE [s |-> Emit(s1, Polkit(sender, "yes")), go |-> TRUE, user |-> usr.user]

(* ------------------------------------------------------------------ *)
(* Completion callbacks and method handlers of device.c               *)
(* ------------------------------------------------------------------ *)

(* report_verify_status *)
report_verify_status(s, match, error) ==
  LET result == verify_result_to_name(match, error)
      done == error = "none" \/ ~IsRetry(error)
  IN
  IF done /\ s.session = NoSession THEN Crash(s)
  ELSE IF done /\ s.session.verify_status_reported THEN s
  ELSE LET s1 == Emit(s, Signal("VerifyStatus", result, done)) IN
       IF done THEN [s1 EXCEPT !.session.verify_status_reported = TRUE] ELSE s1

(* match_cb without the look at the token *)
match_cb_ignores_cancel(s, res) ==
  LET matched == res = "match"
      error == IF IsRetry(res) THEN res ELSE "none"
  IN report_verify_status(s, matched, error)

(* match_cb: res is "match", "no-match" or a retry code *)
match_cb(s, res) ==
  LET cancelled == s.current_cancellable = "cancelled"
      matched == res = "match" /\ ~cancelled
      error == IF IsRetry(res) THEN res ELSE "none"
  IN report_verify_status(s, matched, error)

(* dev_open_cb *)
dev_open_cb(s, ok) ==
  IF s.session = NoSession THEN Crash(s)
  ELSE
    LET invocation == s.session.invocation
        s1 == [s EXCEPT !.session.invocation = NoInv, !.current_action = "NONE"]
    IN
    IF ~ok THEN [ReplyTo(s1, invocation, "Internal") EXCEPT !.session = NoSession]
    ELSE ReplyTo(s1, invocation, "ok")

(* dev_close_cb *)
dev_close_cb(s, ok) ==
  IF s.session = NoSession THEN Crash(s)
  ELSE
    LET invocation == s.session.invocation
        s1 == [s EXCEPT !.session = NoSession, !.current_action = "NONE"]
    IN ReplyTo(s1, invocation, IF ok THEN "ok" ELSE "Internal")

(* The tail of verify_cb, identify_cb and enroll_cb: answer the pending *)
(* stop call or reset the action when cancelled, then drop the token.   *)
(* resetOnStop: the branch that answers the stop call also clears the   *)
(* session's verify_status_reported; resetOnCancel: so does the branch  *)
(* taken when the token was cancelled without a stop call.              *)
FinishAction(s, resetOnStop, resetOnCancel) ==
  IF s.current_cancel_invocation # NoInv THEN
    (IF resetOnStop /\ s.session = NoSession THEN Crash(s)
     ELSE LET s1 == [ReplyTo(s, s.current_cancel_invocation, "ok") EXCEPT
                       !.current_cancel_invocation = NoInv,
                       !.current_action = "NONE",
                       !.current_cancellable = "null"]
          IN IF resetOnStop
             THEN [s1 EXCEPT !.session.verify_status_reported = FALSE] ELSE s1)
  ELSE IF s.current_cancellable = "cancelled" THEN
    (IF resetOnCancel /\ s.session = NoSession THEN Crash(s)
     ELSE LET s1 == [s EXCEPT !.current_action = "NONE", !.current_cancellable = "null"]
          IN IF resetOnCancel
             THEN [s1 EXCEPT !.session.verify_status_reported = FALSE] ELSE s1)
  ELSE [s EXCEPT !.current_cancellable = "null"]

(* verify_cb: error is "none" or the error fp_device_verify_finish set *)
verify_cb_retry_ends(s, error) ==
  LET s1 == [s EXCEPT !.verify_data = NoFinger]
      s2 == IF error # "none" THEN report_verify_status(s1, FALSE, error) ELSE s1
  IN IF s2.crashed THEN s2 ELSE FinishAction(s2, TRUE, TRUE)

verify_cb(s, error) ==
  IF IsRetry(error) THEN LibStart(s, "verify")
  ELSE
    LET s1 == [s EXCEPT !.verify_data = NoFinger]
        s2 == IF error # "none" THEN report_verify_status(s1, FALSE, error) ELSE s1
    IN IF s2.crashed THEN s2 ELSE FinishAction(s2, TRUE, TRUE)

(* identify_cb *)
identify_cb(s, error) ==
  IF IsRetry(error) THEN LibStart(s, "identify")
  ELSE
    LET s1 == [s EXCEPT !.identify_data = {}]
        s2 == IF error # "none" THEN report_verify_status(s1, FALSE, error) ELSE s1
    IN IF s2.crashed THEN s2 ELSE FinishAction(s2, FALSE, TRUE)

(* The close that Release starts once no action is left. *)
ReleaseClose(s, sender) ==
  IF s.session = NoSession THEN Crash(s)
  ELSE LibStart([s EXCEPT !.session.invocation = Inv("Release", sender),
                          !.current_action = "CLOSE"], "close")

(* fprint_device_release up to the nested main loop: cancel, then wait *)
(* on the stack while an action is left.                               *)
fprint_device_release(s, sender) ==
  LET chk == fprint_device_check_claimed(s, sender, "CLAIMED") IN
  IF ~chk.ok THEN ReplyTo(s, Inv("Release", sender), chk.err)
  ELSE IF s.current_cancellable # "null" THEN
    LET s1 == CancelCurrent(s) IN
    IF s1.current_action # "NONE"
    THEN [s1 EXCEPT !.stack = Append(@, [fn |-> "release", who |-> sender])]
    ELSE ReleaseClose(s1, sender)
  ELSE ReleaseClose(s, sender)

(* fprint_device_claim; user is the name authorize_user attached *)
fprint_device_claim(s, sender, user) ==
  LET chk == fprint_device_check_claimed(s, sender, "UNCLAIMED") IN
  IF ~chk.ok THEN ReplyTo(s, Inv("Claim", sender), chk.err)
  ELSE LibStart([s EXCEPT !.clients = @ \cup {sender},
                          !.session = [sender |-> sender, username |-> user,
                                       invocation |-> Inv("Claim", sender),
                                       verify_status_reported |-> FALSE],
                          !.current_action = "OPEN"], "open")

AnyFinger == -1

(* fprint_device_verify_start.  finger_num: what finger_name_to_num    *)
(* gave; loadable: the fingers whose stored file print_data_load can   *)
(* read for this device; first: the head of discover_prints' list.     *)
fprint_device_verify_start(s, sender, finger_num, loadable, first) ==
  LET inv == Inv("VerifyStart", sender)
      chk == fprint_device_check_claimed(s, sender, "CLAIMED")
      prints == s.store[s.session.username]
      gallery == prints \cap loadable
      num == IF finger_num = AnyFinger /\ ~supportsIdentify THEN first ELSE finger_num
      started(s1) == ReplyTo(Emit(s1, Signal("VerifyFingerSelected",
                                              IF num = AnyFinger THEN "any" ELSE "finger",
                                              FALSE)), inv, "ok")
  IN
  IF ~chk.ok THEN ReplyTo(s, inv, chk.err)
  ELSE IF s.current_action # "NONE" THEN ReplyTo(s, inv, SetErr(chk.err, "AlreadyInUse"))
  ELSE IF finger_num = AnyFinger /\ prints = {}
       THEN ReplyTo(s, inv, SetErr(chk.err, "NoEnrolledPrints"))
  ELSE IF supportsIdentify /\ num = AnyFinger THEN
    (IF gallery = {} THEN ReplyTo(s, inv, SetErr(chk.err, "NoEnrolledPrints"))
     ELSE started(LibStart([s EXCEPT !.current_action = "IDENTIFY",
                                     !.current_cancellable = "active",
                                     !.identify_data = gallery], "identify")))
  ELSE
    LET s1 == [s EXCEPT !.current_action = "VERIFY"] IN
    IF num \notin gallery THEN ReplyTo(s1, inv, SetErr(chk.err, "NoEnrolledPrints"))
    ELSE started(LibStart([s1 EXCEPT !.current_cancellable = "active",
                                     !.verify_data = num], "verify"))

(* fprint_device_verify_stop *)
verify_stop_answers_at_once(s, sender) ==
  LET inv == Inv("VerifyStop", sender)
      chk == fprint_device_check_claimed(s, sender, "CLAIMED")
  IN
  IF ~chk.ok THEN ReplyTo(s, inv, chk.err)
  ELSE IF s.current_action = "NONE" THEN ReplyTo(s, inv, "NoActionInProgress")
  ELSE IF s.current_action = "ENROLL" THEN ReplyTo(s, inv, "AlreadyInUse")
  ELSE IF s.current_cancellable # "null"
       THEN ReplyTo(CancelCurrent(s), inv, "ok")
  ELSE [ReplyTo(s, inv, "ok") EXCEPT !.current_action = "NONE",
                                     !.session.verify_status_reported = FALSE]

fprint_device_verify_stop(s, sender) ==
  LET inv == Inv("VerifyStop", sender)
      chk == fprint_device_check_claimed(s, sender, "CLAIMED")
  IN
  IF ~chk.ok THEN ReplyTo(s, inv, chk.err)
  ELSE IF s.current_action = "NONE" THEN ReplyTo(s, inv, "NoActionInProgress")
  ELSE IF s.current_action = "ENROLL" THEN ReplyTo(s, inv, "AlreadyInUse")
  ELSE IF s.current_cancellable # "null"
       THEN [CancelCurrent(s) EXCEPT !.current_cancel_invocation = inv]
  ELSE [ReplyTo(s, inv, "ok") EXCEPT !.current_action = "NONE",
                                     !.session.verify_status_reported = FALSE]

(* enroll_progress_cb: res is "stage" or a retry code; last: the stage *)
(* that completed is the final one.                                    *)
enroll_progress_cb(s, res, last) ==
  LET name == enroll_result_to_name(FALSE, FALSE, IF IsRetry(res) THEN res ELSE "none") IN
  IF last THEN s ELSE Emit(s, Signal("EnrollStatus", name, FALSE))

Foreign == [user |-> "old-install", finger |-> 1]
PrintOf(u, f) == [user |-> u, finger |-> f]

(* try_delete_print.  listOk: fp_device_list_prints_sync succeeded;    *)
(* listed: the templates it found on the device; first[u]: the head of *)
(* discover_prints' list for user u; loadable: the fingers whose file  *)
(* loads; victim: the head of what is left of the device's list;       *)
(* delOk: fp_device_delete_print_sync succeeded.  The inner loop loads *)
(* fingers->data, the head of the list, on every round, so only each   *)
(* user's first finger is taken off the list.                          *)
TryDeleteKept(s, first, loadable) ==
  {PrintOf(u, first[u]) : u \in {v \in Users : s.store[v] # {} /\ first[v] \in loadable}}

TryDeleteLeft(s, listed, first, loadable) == listed \ TryDeleteKept(s, first, loadable)

IsKnown(s, print) == print.user \in Users /\ print.finger \in s.store[print.user]

try_delete_print(s, gc) ==
  LET s1 == Emit(s, LibCall("list_prints_sync")) IN
  IF ~gc.listOk THEN [s |-> s1, ok |-> FALSE]
  ELSE IF TryDeleteLeft(s, gc.listed, gc.first, gc.loadable) = {} THEN [s |-> s1, ok |-> FALSE]
  ELSE [s |-> Emit(s1, [LibCall("delete_print_sync") EXCEPT
                          !.result = IF IsKnown(s, gc.victim) THEN "known" ELSE "foreign"]),
        ok |-> gc.delOk]

(* file_storage_print_data_save: the int it returns.  A failed write   *)
(* returns the GError's code, a positive number.                       *)
ENOMEM == 12
file_storage_print_data_save(how) ==
  CASE how = "ok" -> 0
    [] how = "serialize" -> 0 - ENOMEM
    [] how = "mkdir" -> 0 - 1
    [] OTHER -> 1

(* enroll_cb.  enrolled: fp_device_enroll_finish returned a print;     *)
(* gc: the inputs of try_delete_print; save: how print_data_save ends. *)
enroll_cb(s, enrolled, error, gc, save) ==
  LET del == IF error = "DATA_FULL" THEN try_delete_print(s, gc)
             ELSE [s |-> s, ok |-> FALSE]
      name0 == enroll_result_to_name(TRUE, enrolled, error)
      r == file_storage_print_data_save(save)
      name == IF enrolled /\ r < 0 THEN "enroll-failed" ELSE name0
      user == s.session.username
      s1 == IF enrolled /\ save = "ok" /\ user \in Users
            THEN [del.s EXCEPT !.store[user] = @ \cup {s.enroll_data}] ELSE del.s
  IN
  IF error = "DATA_FULL" /\ del.ok THEN
    (IF s.session = NoSession THEN Crash(del.s) ELSE LibStart(del.s, "enroll"))
  ELSE FinishAction(Emit(s1, Signal("EnrollStatus", name, TRUE)), FALSE, FALSE)

(* fprint_device_enroll_start *)
fprint_device_enroll_start(s, sender, finger_num) ==
  LET inv == Inv("EnrollStart", sender)
      chk == fprint_device_check_claimed(s, sender, "CLAIMED")
  IN
  IF ~chk.ok THEN ReplyTo(s, inv, chk.err)
  ELSE IF finger_num = AnyFinger THEN ReplyTo(s, inv, SetErr(chk.err, "InvalidFingername"))
  ELSE IF s.current_action # "NONE" THEN ReplyTo(s, inv, SetErr(chk.err, "AlreadyInUse"))
  ELSE ReplyTo([LibStart([s EXCEPT !.current_cancellable = "active",
                                   !.enroll_data = finger_num], "enroll")
                  EXCEPT !.current_action = "ENROLL"], inv, "ok")

(* fprint_device_enroll_stop *)
(* fprint_device_enroll_stop resetting the action while the token is   *)
(* still set, without waiting for enroll_cb                            *)
enroll_stop_resets_at_once(s, sender) ==
  LET inv == Inv("EnrollStop", sender)
      chk == fprint_device_check_claimed(s, sender, "CLAIMED")
  IN
  IF ~chk.ok THEN ReplyTo(s, inv, chk.err)
  ELSE IF s.current_action # "ENROLL" THEN
    (IF s.current_action = "NONE" THEN ReplyTo(s, inv, SetErr(chk.err, "NoActionInProgress"))
     ELSE IF s.current_action \in {"VERIFY", "IDENTIFY"}
          THEN ReplyTo(s, inv, SetErr(chk.err, "AlreadyInUse"))
     ELSE Crash(s))
  ELSE IF s.current_cancellable # "null"
       THEN [CancelCurrent(s) EXCEPT !.current_cancel_invocation = inv,
                                     !.current_action = "NONE"]
  ELSE [ReplyTo(s, inv, "ok") EXCEPT !.current_action = "NONE"]

fprint_device_enroll_stop(s, sender) ==
  LET inv == Inv("EnrollStop", sender)
      chk == fprint_device_check_claimed(s, sender, "CLAIMED")
  IN
  IF ~chk.ok THEN ReplyTo(s, inv, chk.err)
  ELSE IF s.current_action # "ENROLL" THEN
    (IF s.current_action = "NONE" THEN ReplyTo(s, inv, SetErr(chk.err, "NoActionInProgress"))
     ELSE IF s.current_action \in {"VERIFY", "IDENTIFY"}
          THEN ReplyTo(s, inv, SetErr(chk.err, "AlreadyInUse"))
     ELSE Crash(s))
  ELSE IF s.current_cancellable # "null"
       THEN [CancelCurrent(s) EXCEPT !.current_cancel_invocation = inv]
  ELSE [ReplyTo(s, inv, "ok") EXCEPT !.current_action = "NONE"]

(* fprint_device_list_enrolled_fingers *)
fprint_device_list_enrolled_fingers(s, sender, user) ==
  LET inv == Inv("ListEnrolledFingers", sender)
      s1 == [s EXCEPT !.clients = @ \cup {sender}]
  IN ReplyTo(s1, inv, IF s.store[user] = {} THEN "NoEnrolledPrints" ELSE "ok")

(* The end of _fprint_device_client_vanished, after its wait loop:     *)
(* the handler's own session reference is never NULL here, so the      *)
(* device is closed synchronously whatever became of the session.      *)
VanishedClose(s, name) ==
  LET s1 == Emit(s, LibCall("close_sync")) IN
  [s1 EXCEPT !.devOpen = IF s.devOp.kind = "none" THEN FALSE ELSE @,
             !.session = NoSession,
             !.clients = @ \ {name}]

(* _fprint_device_client_vanished up to its nested main loop *)
fprint_device_client_vanished(s, name) ==
  LET s0 == [s EXCEPT !.connected = @ \ {name}] IN
  IF name \notin s.clients THEN s0
  ELSE IF s.session # NoSession /\ s.session.sender = name THEN
    (IF s.current_action # "NONE" THEN
       LET s1 == IF s.current_cancellable # "null" THEN CancelCurrent(s0) ELSE s0
       IN [s1 EXCEPT !.stack = Append(@, [fn |-> "vanished", who |-> name])]
     ELSE VanishedClose(s0, name))
  ELSE [s0 EXCEPT !.clients = @ \ {name}]

(* ------------------------------------------------------------------ *)
(* History: what an observer of the bus and of the library calls has  *)
(* seen.  It is written by every dispatch and read by no handler.     *)
(* ------------------------------------------------------------------ *)
CountIn(es, P(_)) == Cardinality({i \in 1..Len(es) : P(es[i])})
Has(es, P(_)) == \E i \in 1..Len(es) : P(es[i])

IsVerifyStarted(e) == e.type = "reply" /\ e.name = "VerifyStart" /\ e.result = "ok"
IsDoneStatus(e) == e.type = "signal" /\ e.name = "VerifyStatus" /\ e.done
IsCloseCall(e) == e.type = "call" /\ e.name \in {"close", "close_sync"}
IsReleaseAnswer(e) == e.type = "reply" /\ e.name = "Release" /\ e.result \in {"ok", "Internal"}

Min(a, b) == IF a < b THEN a ELSE b

HistInit == [doneCount |-> 0, inCycle |-> FALSE, rel |-> "none"]

(* The completion callback of the operation has run: the action is     *)
(* None, the token is dropped, and the library holds no verify,        *)
(* identify or enroll whose callback is still to come.                 *)
Settled(r) ==
  /\ r.current_action = "NONE"
  /\ r.current_cancellable = "null"
  /\ r.devOp.kind \notin Cancellable
  /\ \A i \in 1..Len(r.failq) : r.failq[i].kind \notin Cancellable

(* A verify cycle runs from an accepted VerifyStart until the action   *)
(* is no longer a verify or an identify; doneCount counts the          *)
(* VerifyStatus signals with done = TRUE of the cycle.  rel follows a  *)
(* Release that found an operation in flight: "pending" from the       *)
(* moment it starts to wait until the operation's callback has run,    *)
(* then "settled" until the session is gone.                           *)
Observe(r) ==
  LET started == Has(r.out, IsVerifyStarted)
      doneN == CountIn(r.out, IsDoneStatus)
      inCycle1 == IF started THEN TRUE
                  ELSE hist.inCycle /\ r.current_action \in {"VERIFY", "IDENTIFY"}
      pushed == Len(r.stack) > Len(stack) /\ r.stack[Len(r.stack)].fn = "release"
  IN
  [doneCount |-> IF started THEN doneN
                 ELSE IF hist.inCycle THEN Min(2, hist.doneCount + doneN)
                 ELSE 0,
   inCycle |-> inCycle1,
   rel |-> IF r.session = NoSession THEN "none"
           ELSE IF pushed THEN "pending"
           ELSE IF hist.rel = "pending" /\ Settled(r) THEN "settled"
           ELSE hist.rel]

(* The state a dispatch leaves.  A crash ends the process: nothing of  *)
(* its state is left to tell apart.                                    *)
Dead == [session |-> NoSession, current_action |-> "NONE", current_cancellable |-> "null",
         current_cancel_invocation |-> NoInv, verify_data |-> NoFinger,
         identify_data |-> {}, enroll_data |-> NoFinger, clients |-> {},
         devOpen |-> FALSE, devOp |-> NoOp, failq |-> <<>>, store |-> store,
         stack |-> <<>>, connected |-> connected, crashed |-> TRUE, out |-> <<>>]

CommitRec(r) ==

  /\ session' = r.session
  /\ current_action' = r.current_action
  /\ current_cancellable' = r.current_cancellable
  /\ current_cancel_invocation' = r.current_cancel_invocation
  /\ verify_data' = r.verify_data
  /\ identify_data' = r.identify_data
  /\ enroll_data' = r.enroll_data
  /\ clients' = r.clients
  /\ devOpen' = r.devOpen
  /\ devOp' = r.devOp
  /\ failq' = r.failq
  /\ store' = r.store
  /\ stack' = r.stack
  /\ connected' = r.connected
  /\ crashed' = r.crashed
  /\ hist' = Observe(r)
  /\ UNCHANGED <<supportsIdentify, overtake, pamVars, discVars, mgrVars, sessVars>>

Commit(r) == CommitRec(IF r.crashed THEN Dead ELSE r)

(* ------------------------------------------------------------------ *)
(* Dispatches of the daemon's main loop                               *)
(* ------------------------------------------------------------------ *)
(* The device after fprint_device_init.  The callers are either two    *)
(* whose calls wait for the idle callbacks that are due, or, on a      *)
(* device without identify, one whose queued calls overtake them.      *)
DeviceInit ==
  /\ session = NoSession
  /\ current_action = "NONE"
  /\ current_cancellable = "null"
  /\ current_cancel_invocation = NoInv
  /\ verify_data = NoFinger
  /\ identify_data = {}
  /\ enroll_data = NoFinger
  /\ clients = {}
  /\ devOpen = FALSE
  /\ devOp = NoOp
  /\ failq = <<>>
  /\ supportsIdentify \in BOOLEAN
  /\ store = [u \in Users |-> IF u = "alice" THEN Fingers ELSE {}]
  /\ stack = <<>>
  /\ overtake \in (IF supportsIdentify THEN {FALSE} ELSE BOOLEAN)
  /\ connected = IF overtake THEN {"c1"} ELSE Callers
  /\ crashed = FALSE
  /\ hist = HistInit

(* What a caller passes as username and what the lookups answer.  The *)
(* answers are drawn only where the handler asks for them.            *)
AuthInputs ==
  {i \in [username : {"", "alice", "bob"}, lookupOk : BOOLEAN, pkSet : BOOLEAN,
          pk : BOOLEAN] :
     /\ i.username = "" => i.lookupOk /\ i.pkSet
     /\ ~i.lookupOk => i.pkSet /\ i.pk
     /\ ~i.pkSet => i.pk}

CanCall(c) == ~crashed /\ c \in connected /\ (overtake \/ failq = <<>>)

(* Every dispatch is given as the set of the steps it can take from   *)
(* the current state, one per choice of its inputs: the state it      *)
(* leaves and what it sends.                                          *)
Step(by, who, r) == [by |-> by, who |-> who, r |-> r]

(* The steps that stay within the bounds on the waiting handlers and   *)
(* on the refused calls.                                               *)
Fits(S) == {st \in S : Len(st.r.stack) <= MaxStack /\ Len(st.r.failq) <= MaxFailq}

Authorized(method, c, i) ==
  action_authorization_handler(Cur, method, c, i.username, i.lookupOk, i.pkSet, i.pk)

OwnUser(pk) == [username |-> "", lookupOk |-> TRUE, pkSet |-> TRUE, pk |-> pk]

(* A method call: the authorization handler, then the method handler. *)
ClaimSteps(c) ==
  IF ~CanCall(c) THEN {}
  ELSE Fits(
       {LET a == Authorized("Claim", c, i)
        IN Step("Claim", c, IF a.go THEN fprint_device_claim(a.s, c, a.user) ELSE a.s)
        : i \in AuthInputs})

Claim(c) == \E st \in ClaimSteps(c) : Commit(st.r)

ReleaseSteps(c) ==
  IF ~CanCall(c) THEN {}
  ELSE Fits(
       {LET a == Authorized("Release", c, OwnUser(pk))
        IN Step("Release", c, IF a.go THEN fprint_device_release(a.s, c) ELSE a.s)
        : pk \in BOOLEAN})

Release(c) == \E st \in ReleaseSteps(c) : Commit(st.r)

(* fprint_device_release goes on after its loop *)
ReleaseResumeSteps ==
  IF ~(/\ ~crashed
       /\ Len(stack) > 0
       /\ stack[Len(stack)].fn = "release"
       /\ current_action = "NONE") THEN {}
  ELSE Fits(
       {Step("ReleaseResume", stack[Len(stack)].who,
             ReleaseClose([Cur EXCEPT !.stack = SubSeq(@, 1, Len(@) - 1)],
                          stack[Len(stack)].who))})

ReleaseResume == \E st \in ReleaseResumeSteps : Commit(st.r)

VerifyStartSteps(c) ==
  IF ~CanCall(c) THEN {}
  ELSE Fits(
       LET prints == IF session = NoSession THEN {} ELSE store[session.username]
       IN {LET a == Authorized("VerifyStart", c, OwnUser(x[1]))
           IN Step("VerifyStart", c,
                   IF a.go THEN fprint_device_verify_start(a.s, c, x[2], x[3], x[4])
                   ELSE a.s)
           : x \in BOOLEAN \X ({AnyFinger} \cup Fingers) \X {{}, Fingers}
                   \X (IF prints = {} THEN {NoFinger} ELSE prints)})

VerifyStart(c) == \E st \in VerifyStartSteps(c) : Commit(st.r)

VerifyStopSteps(c) ==
  IF ~CanCall(c) THEN {}
  ELSE Fits(
       {LET a == Authorized("VerifyStop", c, OwnUser(pk))
        IN Step("VerifyStop", c, IF a.go THEN fprint_device_verify_stop(a.s, c) ELSE a.s)
        : pk \in BOOLEAN})

VerifyStop(c) == \E st \in VerifyStopSteps(c) : Commit(st.r)

EnrollStartSteps(c) ==
  IF ~CanCall(c) THEN {}
  ELSE Fits(
       {LET a == Authorized("EnrollStart", c, OwnUser(x[1]))
        IN Step("EnrollStart", c,
                IF a.go THEN fprint_device_enroll_start(a.s, c, x[2]) ELSE a.s)
        : x \in BOOLEAN \X ({AnyFinger} \cup EnrollFingers)})

EnrollStart(c) == \E st \in EnrollStartSteps(c) : Commit(st.r)

EnrollStopSteps(c) ==
  IF ~CanCall(c) THEN {}
  ELSE Fits(
       {LET a == Authorized("EnrollStop", c, OwnUser(pk))
        IN Step("EnrollStop", c, IF a.go THEN fprint_device_enroll_stop(a.s, c) ELSE a.s)
        : pk \in BOOLEAN})

EnrollStop(c) == \E st \in EnrollStopSteps(c) : Commit(st.r)

ListEnrolledFingersSteps(c) ==
  IF ~CanCall(c) THEN {}
  ELSE Fits(
       {LET a == Authorized("ListEnrolledFingers", c, i)
        IN Step("ListEnrolledFingers", c,
                IF a.go THEN fprint_device_list_enrolled_fingers(a.s, c, a.user) ELSE a.s)
        : i \in AuthInputs})

ListEnrolledFingers(c) == \E st \in ListEnrolledFingersSteps(c) : Commit(st.r)

(* The bus name of c left the bus. *)
ClientVanishedSteps(c) ==
  IF ~(~crashed /\ c \in connected) THEN {}
  ELSE Fits(
       {Step("ClientVanished", c, fprint_device_client_vanished(Cur, c))})

ClientVanished(c) == \E st \in ClientVanishedSteps(c) : Commit(st.r)

(* One more round of the vanished handler's loop: it cancels whatever  *)
(* token it finds before it iterates the main loop again.              *)
VanishedCancelSteps ==
  IF ~(/\ ~crashed
       /\ Len(stack) > 0
       /\ stack[Len(stack)].fn = "vanished"
       /\ current_action # "NONE"
       /\ current_cancellable = "active") THEN {}
  ELSE Fits(
       {Step("VanishedCancel", stack[Len(stack)].who, CancelCurrent(Cur))})

VanishedCancel == \E st \in VanishedCancelSteps : Commit(st.r)

(* _fprint_device_client_vanished goes on after its loop *)
VanishedResumeSteps ==
  IF ~(/\ ~crashed
       /\ Len(stack) > 0
       /\ stack[Len(stack)].fn = "vanished"
       /\ current_action = "NONE") THEN {}
  ELSE Fits(
       {Step("VanishedResume", stack[Len(stack)].who,
             VanishedClose([Cur EXCEPT !.stack = SubSeq(@, 1, Len(@) - 1)],
                           stack[Len(stack)].who))})

VanishedResume == \E st \in VanishedResumeSteps : Commit(st.r)

(* Completions the library delivers *)
OpenDoneSteps ==
  IF ~(~crashed /\ devOp.kind = "open") THEN {}
  ELSE Fits(
       {Step("OpenDone", "lib",
             dev_open_cb([Cur EXCEPT !.devOp = NoOp, !.devOpen = ok], ok))
        : ok \in BOOLEAN})

OpenDone == \E st \in OpenDoneSteps : Commit(st.r)

CloseDoneSteps ==
  IF ~(~crashed /\ devOp.kind = "close") THEN {}
  ELSE Fits(
       {Step("CloseDone", "lib",
             dev_close_cb([Cur EXCEPT !.devOp = NoOp, !.devOpen = FALSE], ok))
        : ok \in BOOLEAN})

CloseDone == \E st \in CloseDoneSteps : Commit(st.r)

MatchCbSteps ==
  IF ~(~crashed /\ devOp.kind \in {"verify", "identify"} /\ devOp.reported = "none") THEN {}
  ELSE Fits(
       {Step("MatchCb", "lib", match_cb([Cur EXCEPT !.devOp.reported = res], res))
        : res \in {"match", "no-match"} \cup RetryDrawn})

MatchCb == \E st \in MatchCbSteps : Commit(st.r)

(* What fp_device_verify_finish / fp_device_identify_finish can give:  *)
(* a cancelled operation ends with G_IO_ERROR_CANCELLED; a retry that  *)
(* was reported to the match callback is the error of the finish; a    *)
(* device error can end any operation.                                 *)
MatchOutcomes(op) ==
  IF op.cancelled THEN {"CANCELLED"}
  ELSE IF op.reported \in {"match", "no-match"} THEN {"none", "PROTO", "OTHER"}
  ELSE IF op.reported \in RetryCodes THEN {op.reported}
  ELSE {"PROTO", "OTHER"}

VerifyDoneSteps ==
  IF ~(~crashed /\ devOp.kind = "verify") THEN {}
  ELSE Fits(
       {Step("VerifyDone", "lib", verify_cb([Cur EXCEPT !.devOp = NoOp], error))
        : error \in MatchOutcomes(devOp)})

VerifyDone == \E st \in VerifyDoneSteps : Commit(st.r)

IdentifyDoneSteps ==
  IF ~(~crashed /\ devOp.kind = "identify") THEN {}
  ELSE Fits(
       {Step("IdentifyDone", "lib", identify_cb([Cur EXCEPT !.devOp = NoOp], error))
        : error \in MatchOutcomes(devOp)})

IdentifyDone == \E st \in IdentifyDoneSteps : Commit(st.r)

EnrollProgressSteps ==
  IF ~(~crashed /\ devOp.kind = "enroll" /\ devOp.reported = "none") THEN {}
  ELSE Fits(
       {Step("EnrollProgress", "lib",
             enroll_progress_cb([Cur EXCEPT !.devOp.reported = IF x[2] THEN "last" ELSE @],
                                x[1], x[2]))
        : x \in {y \in ({"stage"} \cup RetryDrawn) \X BOOLEAN : y[2] => y[1] = "stage"}})

EnrollProgress == \E st \in EnrollProgressSteps : Commit(st.r)

NoGc == [listOk |-> FALSE, listed |-> {}, first |-> [u \in Users |-> 1],
         loadable |-> {}, victim |-> Foreign, delOk |-> FALSE]

(* What the device lists and what the store's directory scans give *)
GcInputs(s) ==
  {g \in [listOk : BOOLEAN,
          listed : SUBSET {Foreign, PrintOf("alice", 1), PrintOf("alice", 2)},
          first : [Users -> Fingers],
          loadable : {{}, Fingers},
          victim : {Foreign, PrintOf("alice", 1), PrintOf("alice", 2)},
          delOk : BOOLEAN] :
     /\ \A u \in Users : s.store[u] # {} => g.first[u] \in s.store[u]
     /\ \A u \in Users : s.store[u] = {} => g.first[u] = 1
     /\ ~g.listOk => g.listed = {} /\ g.loadable = {} /\ g.delOk
     /\ LET left == TryDeleteLeft(s, g.listed, g.first, g.loadable)
        IN IF left = {} THEN g.victim = Foreign /\ g.delOk ELSE g.victim \in left}

EnrollOutcomes(op) ==
  IF op.cancelled THEN {[enrolled |-> FALSE, error |-> "CANCELLED", save |-> "ok"]}
  ELSE {[enrolled |-> FALSE, error |-> e, save |-> "ok"] : e \in {"PROTO", "DATA_FULL", "OTHER"}}
       \cup (IF op.reported = "last"
             THEN {[enrolled |-> TRUE, error |-> "none", save |-> sv]
                   : sv \in {"ok", "serialize", "mkdir", "write"}}
             ELSE {})

EnrollDoneSteps ==
  IF ~(~crashed /\ devOp.kind = "enroll") THEN {}
  ELSE Fits(
       LET s0 == [Cur EXCEPT !.devOp = NoOp]
       IN UNION {{Step("EnrollDone", "lib", enroll_cb(s0, o.enrolled, o.error, gc, o.save))
                  : gc \in (IF o.error = "DATA_FULL" THEN GcInputs(s0) ELSE {NoGc})}
                 : o \in EnrollOutcomes(devOp)})

EnrollDone == \E st \in EnrollDoneSteps : Commit(st.r)

(* The callback of a call the library refused *)
FailedCallDoneSteps ==
  IF ~(~crashed /\ Len(failq) > 0) THEN {}
  ELSE Fits(
       LET f == Head(failq)
           s0 == [Cur EXCEPT !.failq = Tail(@)]
       IN {Step("FailedCallDone", "lib",
                CASE f.kind = "open" -> dev_open_cb(s0, FALSE)
                  [] f.kind = "close" -> dev_close_cb(s0, FALSE)
                  [] f.kind = "verify" -> verify_cb(s0, f.err)
                  [] f.kind = "identify" -> identify_cb(s0, f.err)
                  [] OTHER -> enroll_cb(s0, FALSE, f.err, NoGc, "ok"))})

FailedCallDone == \E st \in FailedCallDoneSteps : Commit(st.r)

Next ==
  \/ \E c \in Callers : Claim(c)
  \/ \E c \in Callers : Release(c)
  \/ ReleaseResume
  \/ \E c \in Callers : VerifyStart(c)
  \/ \E c \in Callers : VerifyStop(c)
  \/ \E c \in Callers : EnrollStart(c)
  \/ \E c \in Callers : EnrollStop(c)
  \/ \E c \in Callers : ListEnrolledFingers(c)
  \/ \E c \in Callers : ClientVanished(c)
  \/ VanishedCancel
  \/ VanishedResume
  \/ OpenDone
  \/ CloseDone
  \/ MatchCb
  \/ VerifyDone
  \/ IdentifyDone
  \/ EnrollProgress
  \/ EnrollDone
  \/ FailedCallDone

(* Every step the daemon can take from the current state *)
CallSteps ==
  UNION {ClaimSteps(c) \cup ReleaseSteps(c) \cup VerifyStartSteps(c) \cup VerifyStopSteps(c)
         \cup EnrollStartSteps(c) \cup EnrollStopSteps(c) \cup ListEnrolledFingersSteps(c)
         \cup ClientVanishedSteps(c) : c \in Callers}

LoopSteps ==
  ReleaseResumeSteps \cup VanishedCancelSteps \cup VanishedResumeSteps \cup OpenDoneSteps
  \cup CloseDoneSteps \cup MatchCbSteps \cup VerifyDoneSteps \cup IdentifyDoneSteps
  \cup EnrollProgressSteps \cup EnrollDoneSteps \cup FailedCallDoneSteps

Steps == CallSteps \cup LoopSteps

(* ------------------------------------------------------------------ *)
(* The PAM module: do_verify, prompt_pw and do_auth                   *)
(*                                                                    *)
(* do_auth runs do_verify on the calling thread while prompt_pw runs  *)
(* on a second thread (unless no-pthread is set).  Every action below *)
(* is one stretch of one thread between two points where the other   *)
(* thread, the bus or the clock can be observed.                      *)
(* ------------------------------------------------------------------ *)
RetryResults == {"verify-retry-scan", "verify-swipe-too-short",
                 "verify-finger-not-centered", "verify-remove-and-retry"}
DeviceErrors == {"verify-unknown-error", "verify-disconnected"}
FprintdName == "net.reactivated.Fprint"

(* The option sets pam_sm_authenticate hands to do_auth and to          *)
(* do_auth_no_pthread: no-pthread forces no-need-enter; pw-first and    *)
(* fp-max-tries-switch-to-pw are read by do_auth_no_pthread alone.      *)
UINT_MAX == 2^UIntBits - 1
ULONG_MAX == 2^ULongBits - 1

(* the timeout option: a number of ticks, or UINT_MAX for timeout=-1 *)
Timeouts == {Timeout, UINT_MAX}

(* uint64_t arithmetic, and the conversion of its result to int64_t *)
U64(x) == x % 2^ULongBits
ToInt64(x) == IF x >= 2^(ULongBits - 1) THEN x - 2^ULongBits ELSE x

(* do_verify's deadline and the time left before it *)
VerificationEnd(timeout, now) ==
  IF timeout # UINT_MAX THEN U64(now + timeout) ELSE ULONG_MAX
WaitTime(end, now) == ToInt64(U64(end - now))

Options ==
  {o \in [no_pthread : BOOLEAN, no_need_enter : BOOLEAN, max_tries : 1..MaxTries,
          pw_first : BOOLEAN, max_tries_switch_to_pw : BOOLEAN, timeout : Timeouts] :
     /\ o.no_pthread => o.no_need_enter
     /\ ~o.no_pthread => ~o.pw_first /\ ~o.max_tries_switch_to_pw}

(* Bus messages of the module's connection *)
ReplyMsg(err) == [kind |-> "reply", result |-> err, done |-> FALSE, parsed |-> TRUE]
StatusMsg(result, done) == [kind |-> "status", result |-> result, done |-> done, parsed |-> TRUE]
GarbledStatus == [kind |-> "status", result |-> "", done |-> FALSE, parsed |-> FALSE]
OwnerMsg(name) == [kind |-> "owner", result |-> name, done |-> FALSE, parsed |-> TRUE]

StartErrors == {"none", "NoEnrolledPrints", "Internal"}
StatusDrawn ==
  {StatusMsg(r, TRUE) : r \in {"verify-match", "verify-no-match"} \cup DeviceErrors}
  \cup {StatusMsg("verify-retry-scan", FALSE), StatusMsg("verify-bogus", FALSE), GarbledStatus}
OwnerDrawn == {OwnerMsg(FprintdName), OwnerMsg("org.example.Other")}

verify_result_str_to_msg(result) ==
  IF result \in RetryResults THEN "message" ELSE "NULL"

(* verify_result without the test of verify_started *)
verify_result_any_time(d, m) ==
  IF ~m.parsed THEN [d EXCEPT !.verify_ret = "PAM_AUTHINFO_UNAVAIL"]
  ELSE IF m.done THEN [d EXCEPT !.result = m.result]
  ELSE IF verify_result_str_to_msg(m.result) = "NULL"
         THEN [d EXCEPT !.result = "Protocol error with fprintd!"]
  ELSE [d EXCEPT !.result = "NULL"]

verify_result(d, m) ==
  IF ~m.parsed THEN [d EXCEPT !.verify_ret = "PAM_AUTHINFO_UNAVAIL"]
  ELSE IF ~d.verify_started THEN d
  ELSE IF m.done THEN [d EXCEPT !.result = m.result]
  ELSE IF verify_result_str_to_msg(m.result) = "NULL"
         THEN [d EXCEPT !.result = "Protocol error with fprintd!"]
  ELSE [d EXCEPT !.result = "NULL"]

verify_started_cb(d, m) ==
  IF m.result # "none"
    THEN [d EXCEPT !.verify_ret = IF m.result = "NoEnrolledPrints"
                                    THEN "PAM_AUTHINFO_UNAVAIL" ELSE "PAM_AUTH_ERR"]
    ELSE [d EXCEPT !.verify_started = TRUE]

name_owner_changed(d, m) ==
  IF ~m.parsed THEN [d EXCEPT !.verify_ret = "PAM_AUTHINFO_UNAVAIL"]
  ELSE IF m.result # FprintdName THEN d
  ELSE [d EXCEPT !.verify_ret = "PAM_AUTHINFO_UNAVAIL"]

(* sd_bus_process dispatching one message to the callback that        *)
(* do_verify and do_auth registered for it                            *)
Dispatch(d, m) ==
  CASE m.kind = "reply"  -> verify_started_cb(d, m)
    [] m.kind = "status" -> verify_result(d, m)
    [] OTHER             -> name_owner_changed(d, m)

(* What the loop does with the attempt once VerifyStop has been        *)
(* called: return a result, or count the attempt and go round.         *)
ClassifyDeviceErrorAsNoMatch(d) ==
  IF d.timed_out \/ d.stop_got_pw THEN "PAM_AUTHINFO_UNAVAIL"
  ELSE IF d.result = "verify-no-match" \/ d.result \in DeviceErrors THEN "again"
  ELSE "PAM_AUTH_ERR"

Classify(d) ==
  IF d.timed_out \/ d.stop_got_pw THEN "PAM_AUTHINFO_UNAVAIL"
  ELSE IF d.result = "verify-no-match" THEN "again"
  ELSE IF d.result = "verify-unknown-error" THEN "PAM_AUTHINFO_UNAVAIL"
  ELSE IF d.result = "verify-disconnected" THEN "PAM_AUTHINFO_UNAVAIL"
  ELSE "PAM_AUTH_ERR"

DataInit(o, claimed) ==
  [max_tries |-> o.max_tries, result |-> "NULL", timed_out |-> FALSE,
   verify_started |-> FALSE, verify_ret |-> "PAM_SUCCESS", stop_got_pw |-> FALSE,
   pam_prompt_result |-> "PAM_SUCCESS", fingerprint_enabled |-> claimed,
   dev |-> IF claimed THEN "dev" ELSE "NULL"]

FlagsInit == [has_recieved_sigusr1 |-> FALSE, fingerprint_success |-> FALSE,
              fingerprint_finished |-> FALSE]

(* The record of a run: the external events the module took in, in     *)
(* order, kept where two runs are compared (Off elsewhere, More once   *)
(* the run left the events that are recorded), and the outcome of the  *)
(* run it is compared with.  matched: a VerifyStatus with verify-match *)
(* and done set was dispatched in the current cycle after its          *)
(* VerifyStart was acknowledged.  entry: the three static flags as     *)
(* they were when do_auth was entered.                                 *)
Off == <<"off">>
More == <<"more">>
NoRun == [events |-> Off, ret |-> "none", authtok |-> "none"]

PhInit == [starts |-> 0, nomatch |-> 0, disturbed |-> FALSE, heard |-> FALSE,
           matched |-> FALSE, entry |-> FlagsInit, first |-> "none", triesAtStart |-> 0,
           key |-> "none", released |-> FALSE, calls |-> 0,
           events |-> Off, other |-> NoRun]

Logged(p, e) ==
  IF p.events = Off \/ e = "" THEN p
  ELSE IF e = "other" \/ p.events = More \/ Len(p.events) >= MaxEvents
    THEN [p EXCEPT !.events = More]
  ELSE [p EXCEPT !.events = Append(@, e)]

(* the external event a dispatched bus message stands for *)
BusEvent(d, m) ==
  IF m.kind = "reply" /\ m.result = "none" THEN ""
  ELSE IF m.kind = "status" /\ m.parsed /\ m.done /\ d.verify_started THEN m.result
  ELSE "other"

(* the external event an answer of pam_prompt stands for *)
PromptEvent(o) ==
  IF o.res # "PAM_SUCCESS" THEN "conv-error"
  ELSE IF o.pw = "NULL" THEN "null"
  ELSE IF o.pw = "" THEN "empty"
  ELSE "typed"

MainInit(pc, claimed) ==
  [pc |-> pc, ret |-> "PAM_AUTHINFO_UNAVAIL", verification_end |-> 0,
   device_claimed |-> claimed, device_need_release |-> TRUE, in_pw_mode |-> FALSE]

PwtInit(pc) == [pc |-> pc, pw |-> "NULL", cancel |-> FALSE]

BusInit == [inbox |-> <<>>, replyDue |-> 0]

(* do_auth up to the call of do_verify: the device was found and       *)
(* claimed or not, and the password thread was created.  In the        *)
(* no-pthread strategy the state is the one in which                   *)
(* do_auth_no_pthread enters its loop.                                 *)
PamInitOf(O) ==
  /\ opt \in O
  /\ IF opt.no_pthread
       THEN /\ data = [DataInit(opt, FALSE) EXCEPT !.fingerprint_enabled = TRUE]
            /\ main = [MainInit("np_loop", FALSE) EXCEPT !.in_pw_mode = opt.pw_first]
       ELSE \E claimed \in BOOLEAN :
              /\ data = DataInit(opt, claimed)
              /\ main = MainInit(IF claimed THEN "loop" ELSE "cancel", claimed)
  /\ flags = FlagsInit
  /\ pwt = PwtInit(IF opt.no_pthread THEN "none" ELSE "sleep")
  /\ bus = BusInit
  /\ clock = 0
  /\ authtok = "unset"
  /\ ph = PhInit

PamInit == PamInitOf(Options)

(* The module at rest, while the daemon or the discovery is looked at *)
PamIdle ==
  /\ opt = [no_pthread |-> TRUE, no_need_enter |-> TRUE, max_tries |-> 1,
            pw_first |-> FALSE, max_tries_switch_to_pw |-> FALSE, timeout |-> Timeout]
  /\ data = DataInit(opt, FALSE)
  /\ flags = FlagsInit
  /\ main = MainInit("idle", FALSE)
  /\ pwt = PwtInit("none")
  /\ bus = BusInit
  /\ clock = 0
  /\ authtok = "unset"
  /\ ph = PhInit

InVerify == main.pc \in {"loop", "wait", "process", "poll", "after", "stop"}
Threaded == ~opt.no_pthread

Returns(ret) == [main EXCEPT !.pc = "returned", !.ret = ret]
Disturbed == [ph EXCEPT !.disturbed = TRUE]

PamFrame == UNCHANGED <<devVars, discVars, mgrVars, sessVars, opt>>

(* --- the environment of the module --- *)

Tick ==
  /\ InVerify
  /\ clock < MaxClock
  /\ clock' = clock + 1
  /\ UNCHANGED <<data, flags, main, pwt, bus, authtok, ph>>
  /\ PamFrame

(* the daemon answers a VerifyStart call *)
BusReply ==
  /\ InVerify
  /\ bus.replyDue > 0
  /\ Len(bus.inbox) < MaxInbox
  /\ \E err \in StartErrors :
       bus' = [inbox |-> Append(bus.inbox, ReplyMsg(err)), replyDue |-> bus.replyDue - 1]
  /\ UNCHANGED <<data, flags, main, pwt, clock, authtok, ph>>
  /\ PamFrame

(* a signal the module has a match for arrives *)
BusSignal ==
  /\ InVerify
  /\ Len(bus.inbox) < MaxInbox
  /\ \E m \in StatusDrawn \cup OwnerDrawn :
       bus' = [bus EXCEPT !.inbox = Append(@, m)]
  /\ UNCHANGED <<data, flags, main, pwt, clock, authtok, ph>>
  /\ PamFrame

(* --- do_verify --- *)

(* The head of the while loop: the deadline, the reset of the          *)
(* attempt's fields and the VerifyStart call; with no attempt left,    *)
(* or the call not sent, the return after the loop.  The bus sends no  *)
(* call to the object path NULL.                                       *)
VerifyAttempt ==
  /\ main.pc = "loop"
  /\ IF data.max_tries > 0
       THEN \E sent \in (IF data.dev = "NULL" THEN {FALSE} ELSE BOOLEAN) :
              /\ data' = [data EXCEPT !.timed_out = FALSE, !.verify_started = FALSE,
                                      !.verify_ret = "PAM_INCOMPLETE", !.result = "NULL"]
              /\ IF sent
                   THEN /\ main' = [main EXCEPT !.pc = "wait",
                                                !.verification_end = VerificationEnd(opt.timeout, clock)]
                        /\ bus' = [bus EXCEPT !.replyDue = @ + 1]
                        /\ ph' = [ph EXCEPT !.starts = @ + 1, !.heard = FALSE,
                                            !.matched = FALSE,
                                            !.triesAtStart = data.max_tries]
                   ELSE /\ main' = [Returns("PAM_AUTH_ERR") EXCEPT
                                      !.verification_end = VerificationEnd(opt.timeout, clock)]
                        /\ bus' = bus
                        /\ ph' = [Logged(Disturbed, "other") EXCEPT !.matched = FALSE]
       ELSE /\ main' = Returns("PAM_MAXTRIES")
            /\ UNCHANGED <<data, bus, ph>>
  /\ UNCHANGED <<flags, pwt, clock, authtok>>
  /\ PamFrame

(* The head of the inner loop: the time left, the password flag and    *)
(* the read of the signal descriptor.                                  *)
LoopWait ==
  /\ main.pc = "wait"
  /\ IF WaitTime(main.verification_end, clock) <= 0 \/ data.stop_got_pw
       THEN /\ main' = [main EXCEPT !.pc = "after"]
            /\ ph' = Logged(ph, IF WaitTime(main.verification_end, clock) <= 0 THEN "expired" ELSE "")
       ELSE \E sigint \in (IF Threaded THEN BOOLEAN ELSE {FALSE}) :
              IF sigint
                THEN main' = Returns("PAM_AUTHINFO_UNAVAIL") /\ ph' = Logged(Disturbed, "other")
                ELSE main' = [main EXCEPT !.pc = "process"] /\ ph' = ph
  /\ UNCHANGED <<data, flags, pwt, bus, clock, authtok>>
  /\ PamFrame

AfterProcess(d, r) ==
  IF r < 0 THEN "after"
  ELSE IF d.verify_ret # "PAM_INCOMPLETE" THEN "after"
  ELSE IF ~d.verify_started THEN "wait"
  ELSE IF d.result # "NULL" THEN "after"
  ELSE IF r = 0 THEN "poll"
  ELSE "wait"

(* sd_bus_process and the tests that follow it *)
BusProcess ==
  /\ main.pc = "process"
  /\ \/ /\ main' = [main EXCEPT !.pc = AfterProcess(data, -1)]
        /\ ph' = Logged(Disturbed, "other")
        /\ UNCHANGED <<data, bus>>
     \/ /\ bus.inbox = <<>>
        /\ main' = [main EXCEPT !.pc = AfterProcess(data, 0)]
        /\ UNCHANGED <<data, bus, ph>>
     \/ /\ bus.inbox # <<>>
        /\ LET m == Head(bus.inbox)
               d == Dispatch(data, m)
           IN /\ data' = d
              /\ bus' = [bus EXCEPT !.inbox = Tail(@)]
              /\ main' = [main EXCEPT !.pc = AfterProcess(d, 1)]
              /\ ph' = [Logged(ph, BusEvent(data, m)) EXCEPT
                          !.heard = @ \/ m.kind = "status",
                          !.matched = @ \/ (m = StatusMsg("verify-match", TRUE)
                                            /\ data.verify_started),
                          !.nomatch = IF d.result = "verify-no-match" /\ data.result = "NULL"
                                        THEN @ + 1 ELSE @,
                          !.disturbed = @ \/ d.verify_ret # "PAM_INCOMPLETE"
                                          \/ d.result = "Protocol error with fprintd!"]
  /\ UNCHANGED <<flags, pwt, clock, authtok>>
  /\ PamFrame

(* poll returns: an error, a key (no-pthread), or the bus, the         *)
(* deadline or a signal woke it                                        *)
PollReturn ==
  /\ main.pc = "poll"
  /\ \E ev \in {"error", "key", "woken"} :
       /\ ev = "key" => opt.no_pthread
       /\ ev = "woken" => \/ bus.inbox # <<>>
                          \/ clock >= main.verification_end
                          \/ flags.has_recieved_sigusr1
       /\ IF ev \in {"error", "key"}
            THEN /\ main' = Returns("PAM_AUTHINFO_UNAVAIL")
                 /\ ph' = [Logged(Disturbed, IF ev = "key" THEN "key" ELSE "other")
                             EXCEPT !.key = IF ev = "key" THEN "scan" ELSE @]
            ELSE IF flags.has_recieved_sigusr1 /\ Threaded
              THEN main' = Returns("PAM_AUTHINFO_UNAVAIL") /\ ph' = ph
              ELSE main' = [main EXCEPT !.pc = "wait"] /\ ph' = ph
  /\ UNCHANGED <<data, flags, pwt, bus, clock, authtok>>
  /\ PamFrame

(* After the inner loop: a result of the callbacks, the timeout, or    *)
(* the match.                                                          *)
AfterLoop ==
  /\ main.pc = "after"
  /\ IF data.verify_ret # "PAM_INCOMPLETE"
       THEN /\ main' = Returns(data.verify_ret)
            /\ UNCHANGED <<data, flags, ph>>
       ELSE IF clock >= main.verification_end /\ ~opt.no_need_enter /\ ~opt.no_pthread
         THEN /\ data' = [data EXCEPT !.timed_out = TRUE]
              /\ main' = [main EXCEPT !.pc = "stop"]
              /\ UNCHANGED <<flags, ph>>
         ELSE IF data.result = "verify-match"
           THEN /\ flags' = [flags EXCEPT !.fingerprint_success = @ \/ Threaded]
                /\ main' = Returns("PAM_SUCCESS")
                /\ ph' = [ph EXCEPT !.first = IF @ = "none" /\ Threaded THEN "fp" ELSE @]
                /\ data' = data
           ELSE /\ main' = [main EXCEPT !.pc = "stop"]
                /\ UNCHANGED <<data, flags, ph>>
  /\ UNCHANGED <<pwt, bus, clock, authtok>>
  /\ PamFrame

(* VerifyStop, then the result of the attempt *)
StopAndClassify ==
  /\ main.pc = "stop"
  /\ LET d == [data EXCEPT !.verify_started = FALSE]
         c == Classify(d)
     IN IF c = "again"
          THEN /\ data' = [d EXCEPT !.max_tries = @ - 1]
               /\ main' = [main EXCEPT !.pc = "loop"]
          ELSE /\ data' = d
               /\ main' = Returns(c)
  /\ UNCHANGED <<flags, pwt, bus, clock, authtok, ph>>
  /\ PamFrame

(* --- do_auth after do_verify --- *)

(* do_verify has returned: its deadline is gone, and its signal slots   *)
(* and do_auth's are released, so what the bus still holds is never    *)
(* dispatched.                                                         *)
VerifyReturned ==
  /\ main.pc = "returned"
  /\ Threaded
  /\ main' = [main EXCEPT !.pc = "reconcile", !.verification_end = 0,
                          !.device_need_release = (main.ret # "PAM_SUCCESS")]
  /\ flags' = [flags EXCEPT !.fingerprint_finished = TRUE]
  /\ bus' = BusInit
  /\ UNCHANGED <<data, pwt, clock, authtok, ph>>
  /\ PamFrame

Reconcile ==
  /\ main.pc = "reconcile"
  /\ IF data.stop_got_pw
       THEN /\ main' = [main EXCEPT !.pc = "cancel",
                          !.ret = IF data.pam_prompt_result = "PAM_SUCCESS"
                                    THEN "PAM_SUCCESS" ELSE "PAM_AUTH_ERR"]
            /\ authtok' = authtok
       ELSE /\ main' = [main EXCEPT !.pc = "cancel"]
            /\ authtok' = IF main.ret = "PAM_SUCCESS" /\ ~opt.no_need_enter
                            THEN "dummy" ELSE authtok
  /\ UNCHANGED <<data, flags, pwt, bus, clock, ph>>
  /\ PamFrame

CancelPrompt ==
  /\ main.pc = "cancel"
  /\ main' = [main EXCEPT !.pc = "join"]
  /\ pwt' = [pwt EXCEPT !.cancel = opt.no_need_enter]
  /\ UNCHANGED <<data, flags, bus, clock, authtok, ph>>
  /\ PamFrame

(* pthread_join returned: the final result and the release *)
Joined ==
  /\ main.pc = "join"
  /\ pwt.pc = "exited"
  /\ main' = [main EXCEPT !.pc = "done",
                !.ret = IF data.stop_got_pw
                          THEN (IF data.pam_prompt_result = "PAM_SUCCESS"
                                  THEN "PAM_AUTHINFO_UNAVAIL" ELSE "PAM_AUTH_ERR")
                          ELSE @]
  /\ UNCHANGED <<data, flags, pwt, bus, clock, authtok, ph>>
  /\ PamFrame

(* what pam_prompt may hand back *)
PromptOutcomes ==
  {[res |-> "PAM_SUCCESS", pw |-> "secret"], [res |-> "PAM_SUCCESS", pw |-> ""],
   [res |-> "PAM_SUCCESS", pw |-> "NULL"], [res |-> "PAM_CONV_ERR", pw |-> "NULL"]}

(* --- do_auth_no_pthread --- *)

(* The head of the loop.  In password mode pam_prompt is called; in    *)
(* fingerprint mode the device is opened and claimed unless it is held *)
(* already, and without a claimed device the loop goes round in        *)
(* password mode.                                                      *)
NoPthreadLoop ==
  /\ main.pc = "np_loop"
  /\ opt.no_pthread
  /\ IF main.in_pw_mode
       THEN /\ main' = [main EXCEPT !.pc = "np_prompt"]
            /\ UNCHANGED <<data, ph>>
       ELSE \E got \in (IF data.fingerprint_enabled /\ ~main.device_claimed
                          THEN (IF ph.calls < MaxVerifyCalls
                                  THEN {"none", "unclaimed", "claimed"}
                                  ELSE {"none", "unclaimed"})
                          ELSE {"kept"}) :
              LET claimed == IF got = "kept" THEN main.device_claimed ELSE got = "claimed"
              IN /\ data' = IF got = "kept" THEN data
                            ELSE [data EXCEPT !.dev = IF got = "none" THEN "NULL" ELSE "dev",
                                              !.fingerprint_enabled = claimed]
                 /\ main' = IF claimed
                              THEN [main EXCEPT !.pc = "np_flush", !.device_claimed = TRUE]
                              ELSE [main EXCEPT !.in_pw_mode = TRUE, !.device_claimed = FALSE]
                 /\ ph' = [Logged(ph, CASE got = "kept" -> ""
                                         [] got = "claimed" -> "claimed"
                                         [] OTHER -> "unclaimed")
                             EXCEPT !.released = @ /\ got # "claimed"]
  /\ UNCHANGED <<flags, pwt, bus, clock, authtok>>
  /\ PamFrame

(* The terminal is flushed, and after the pause it is looked at again: *)
(* a key read then releases the device, forgets its path and sets      *)
(* password mode, and its continue goes round the loop that reads the  *)
(* terminal.  With nothing left to read do_verify is entered.          *)
NoPthreadFlush ==
  /\ main.pc = "np_flush"
  /\ \E key \in BOOLEAN :
       IF key
         THEN /\ data' = [data EXCEPT !.dev = "NULL"]
              /\ main' = [main EXCEPT !.pc = "loop", !.in_pw_mode = TRUE]
              /\ ph' = [Logged(ph, "key") EXCEPT !.key = "flush", !.released = TRUE,
                                                 !.calls = @ + 1]
         ELSE /\ data' = data
              /\ main' = [main EXCEPT !.pc = "loop"]
              /\ ph' = [ph EXCEPT !.calls = @ + 1]
  /\ clock' = 0
  /\ UNCHANGED <<flags, pwt, bus, authtok>>
  /\ PamFrame

(* do_verify has returned to do_auth_no_pthread *)
NoPthreadVerifyReturned ==
  /\ main.pc = "returned"
  /\ opt.no_pthread
  /\ IF main.ret = "PAM_SUCCESS"
       THEN /\ authtok' = IF ~opt.no_need_enter THEN "dummy" ELSE authtok
            /\ main' = [main EXCEPT !.pc = "done"]
            /\ UNCHANGED <<data, ph>>
       ELSE LET switch == opt.max_tries_switch_to_pw /\ main.ret = "PAM_MAXTRIES"
                again == switch \/ main.ret = "PAM_AUTHINFO_UNAVAIL"
            IN /\ data' = [data EXCEPT
                             !.dev = IF main.device_claimed THEN "NULL" ELSE @,
                             !.max_tries = IF switch THEN opt.max_tries ELSE @]
               /\ main' = [main EXCEPT !.pc = IF again THEN "np_loop" ELSE "done",
                                       !.in_pw_mode = @ \/ again,
                                       !.device_claimed = FALSE]
               /\ ph' = [ph EXCEPT !.released = @ \/ main.device_claimed]
               /\ authtok' = authtok
  /\ UNCHANGED <<flags, pwt, bus, clock>>
  /\ PamFrame

(* pam_prompt returns to do_auth_no_pthread *)
NoPthreadPrompt ==
  /\ main.pc = "np_prompt"
  /\ \E o \in PromptOutcomes :
       /\ IF o.res # "PAM_SUCCESS"
            THEN main' = [main EXCEPT !.pc = "done", !.ret = "PAM_AUTH_ERR"]
            ELSE IF o.pw \in {"NULL", ""}
              THEN IF data.fingerprint_enabled
                     THEN main' = [main EXCEPT !.pc = "np_loop", !.ret = o.res,
                                               !.in_pw_mode = FALSE]
                     ELSE main' = [main EXCEPT !.pc = "done", !.ret = "PAM_AUTH_ERR"]
              ELSE main' = [main EXCEPT !.pc = "done", !.ret = "PAM_AUTHINFO_UNAVAIL"]
       /\ authtok' = IF o.res = "PAM_SUCCESS" /\ o.pw \notin {"NULL", ""}
                       THEN "password" ELSE authtok
       /\ ph' = [Logged(ph, PromptEvent(o)) EXCEPT !.key = "none"]
  /\ UNCHANGED <<data, flags, pwt, bus, clock>>
  /\ PamFrame

(* --- prompt_pw --- *)

PwStep(pc) == [pwt EXCEPT !.pc = pc]
PwtExit == [pwt EXCEPT !.pc = "exited", !.pw = "NULL"]    \* pw is freed

(* usleep is over: the first look at fingerprint_success *)
PromptStart ==
  /\ pwt.pc = "sleep"
  /\ ~pwt.cancel
  /\ pwt' = PwStep(IF flags.fingerprint_success THEN "exited" ELSE "prompt")
  /\ UNCHANGED <<data, flags, main, bus, clock, authtok, ph>>
  /\ PamFrame

(* pam_prompt returns *)
PromptReturn ==
  /\ pwt.pc = "prompt"
  /\ ~pwt.cancel
  /\ \E o \in PromptOutcomes :
       LET got == o.res = "PAM_SUCCESS" /\ o.pw # "NULL"
       IN /\ data' = [data EXCEPT !.pam_prompt_result = o.res]
          /\ pwt' = [pwt EXCEPT !.pw = o.pw, !.pc = IF got THEN "recheck" ELSE "nopw"]
          /\ ph' = [Logged(ph, PromptEvent(o)) EXCEPT
                       !.first = IF @ # "none" THEN @
                                 ELSE IF got /\ o.pw # "" THEN "pw" ELSE "nopw"]
  /\ UNCHANGED <<flags, main, bus, clock, authtok>>
  /\ PamFrame

(* no password: the look at fingerprint_finished *)
PromptNoPassword ==
  /\ pwt.pc = "nopw"
  /\ pwt' = IF flags.fingerprint_finished THEN PwtExit ELSE PwStep("flag")
  /\ UNCHANGED <<data, flags, main, bus, clock, authtok, ph>>
  /\ PamFrame

(* a password: the second look at fingerprint_success *)
PromptRecheck ==
  /\ pwt.pc = "recheck"
  /\ pwt' = IF flags.fingerprint_success THEN PwtExit ELSE PwStep("setitem")
  /\ UNCHANGED <<data, flags, main, bus, clock, authtok, ph>>
  /\ PamFrame

PromptSetItem ==
  /\ pwt.pc = "setitem"
  /\ authtok' = IF pwt.pw # "" THEN "password" ELSE authtok
  /\ pwt' = PwStep("flag")
  /\ UNCHANGED <<data, flags, main, bus, clock, ph>>
  /\ PamFrame

PromptFlag ==
  /\ pwt.pc = "flag"
  /\ data' = [data EXCEPT !.stop_got_pw = TRUE]
  /\ pwt' = PwStep("kill")
  /\ UNCHANGED <<flags, main, bus, clock, authtok, ph>>
  /\ PamFrame

(* kill(ppid, SIGUSR1) and the handler it runs *)
PromptKill ==
  /\ pwt.pc = "kill"
  /\ flags' = [flags EXCEPT !.has_recieved_sigusr1 = TRUE]
  /\ pwt' = PwtExit
  /\ UNCHANGED <<data, main, bus, clock, authtok, ph>>
  /\ PamFrame

(* pthread_cancel takes effect where the thread sleeps or reads *)
PromptCancelled ==
  /\ pwt.pc \in {"sleep", "prompt"}
  /\ pwt.cancel
  /\ pwt' = PwStep("exited")
  /\ UNCHANGED <<data, flags, main, bus, clock, authtok, ph>>
  /\ PamFrame

(* A run of do_auth in a new process, with no-pthread set and the      *)
(* options otherwise as they were, once the threaded run has returned. *)
(* The outcome of the threaded run and its events are kept.            *)
SecondRun ==
  /\ main.pc = "done"
  /\ ~opt.no_pthread /\ opt.no_need_enter
  /\ ph.events \notin {Off, More}
  /\ opt' = [opt EXCEPT !.no_pthread = TRUE]
  /\ data' = [DataInit(opt, FALSE) EXCEPT !.fingerprint_enabled = TRUE]
  /\ main' = [MainInit("np_loop", FALSE) EXCEPT !.in_pw_mode = opt.pw_first]
  /\ flags' = FlagsInit
  /\ pwt' = PwtInit("none")
  /\ bus' = BusInit
  /\ clock' = 0
  /\ authtok' = "unset"
  /\ ph' = [PhInit EXCEPT !.events = <<>>,
                          !.other = [events |-> ph.events, ret |-> main.ret,
                                     authtok |-> authtok]]
  /\ UNCHANGED <<devVars, discVars, mgrVars, sessVars>>

(* pam_sm_authenticate is called again in the same process, with the   *)
(* same arguments: do_auth allocates new verify data and a new thread, *)
(* the item PAM_AUTHTOK stays with the handle, and the file's static   *)
(* flags are what the attempt before left.                             *)
NextAttempt ==
  /\ main.pc = "done"
  /\ IF opt.no_pthread
       THEN /\ data' = [DataInit(opt, FALSE) EXCEPT !.fingerprint_enabled = TRUE]
            /\ main' = [MainInit("np_loop", FALSE) EXCEPT !.in_pw_mode = opt.pw_first]
       ELSE \E claimed \in BOOLEAN :
              /\ data' = DataInit(opt, claimed)
              /\ main' = MainInit(IF claimed THEN "loop" ELSE "cancel", claimed)
  /\ pwt' = PwtInit(IF opt.no_pthread THEN "none" ELSE "sleep")
  /\ bus' = BusInit
  /\ clock' = 0
  /\ ph' = [PhInit EXCEPT !.entry = flags]
  /\ UNCHANGED <<flags, authtok>>
  /\ PamFrame

PamNext ==
  \/ Tick
  \/ BusReply
  \/ BusSignal
  \/ VerifyAttempt
  \/ LoopWait
  \/ BusProcess
  \/ PollReturn
  \/ AfterLoop
  \/ StopAndClassify
  \/ VerifyReturned
  \/ Reconcile
  \/ CancelPrompt
  \/ Joined
  \/ NoPthreadLoop
  \/ NoPthreadFlush
  \/ NoPthreadVerifyReturned
  \/ NoPthreadPrompt
  \/ PromptStart
  \/ PromptReturn
  \/ PromptNoPassword
  \/ PromptRecheck
  \/ PromptSetItem
  \/ PromptFlag
  \/ PromptKill
  \/ PromptCancelled

(* ------------------------------------------------------------------ *)
(* Device discovery: open_device                                      *)
(* ------------------------------------------------------------------ *)
NoPath == 0    \* path = NULL; a device is named by its place in the list

(* What a device answers to ListEnrolledFingers(username) *)
Answers == [call : {"ok", "error", "garbled"}, n : 0..MaxPrints]

user_enrolled_prints_num(a) ==
  IF a.call = "error" THEN 0
  ELSE IF a.call = "garbled" THEN 0
  ELSE a.n

OdInit == [pc |-> "call", listed |-> FALSE, i |-> 1, num_devices |-> 0, max_prints |-> 0,
           path |-> NoPath, has_multiple_devices |-> FALSE]

(* The body of the loop over the listed devices *)
open_device_last_wins(o, s, enrolled_prints) ==
  LET better == enrolled_prints >= o.max_prints
  IN [o EXCEPT !.max_prints = IF better THEN enrolled_prints ELSE @,
               !.path = IF better THEN s ELSE @,
               !.num_devices = @ + 1]

open_device_body(o, s, enrolled_prints) ==
  LET better == enrolled_prints > o.max_prints
  IN [o EXCEPT !.max_prints = IF better THEN enrolled_prints ELSE @,
               !.path = IF better THEN s ELSE @,
               !.num_devices = @ + 1]

DiscFrame == UNCHANGED <<devVars, pamVars, mgrVars, sessVars, listing>>

(* GetDevices and the opening of its answer *)
GetDevices ==
  /\ od.pc = "call"
  /\ \E answer \in {"ok", "error", "garbled"} :
       od' = IF answer = "ok" THEN [od EXCEPT !.pc = "read", !.listed = TRUE]
             ELSE [od EXCEPT !.pc = "returned"]
  /\ DiscFrame

(* one device of the list *)
ReadDevice ==
  /\ od.pc = "read"
  /\ od.i <= Len(listing)
  /\ od' = [open_device_body(od, od.i, user_enrolled_prints_num(listing[od.i]))
              EXCEPT !.i = od.i + 1]
  /\ DiscFrame

(* the list is read through *)
OpenDeviceReturn ==
  /\ od.pc = "read"
  /\ od.i > Len(listing)
  /\ od' = [od EXCEPT !.pc = "returned", !.has_multiple_devices = (od.num_devices > 1)]
  /\ DiscFrame

DiscNext == GetDevices \/ ReadDevice \/ OpenDeviceReturn

Listings == UNION {[1..k -> Answers] : k \in 0..MaxDevices}

DiscInit ==
  /\ listing \in Listings
  /\ od = OdInit

DiscIdle ==
  /\ listing = <<>>
  /\ od = [OdInit EXCEPT !.pc = "idle"]

(* ------------------------------------------------------------------ *)
(* The manager (src/src/manager.c): the devices it has seen and its   *)
(* idle-exit timer.  A device is "absent" until the library announces *)
(* it, then "exported" (its object is in the object manager, its      *)
(* interface is on the bus, notify::in-use is connected), then        *)
(* "removed": device_removed_cb takes the interface off the bus and   *)
(* disconnects the handler, and leaves the object in the object       *)
(* manager.  pending holds the timeout sources of the main context.   *)
(* ------------------------------------------------------------------ *)
MgrDevices == 1..MaxMgrDevices
TimerIds == 1..MaxTimers

DevAbsent == [state |-> "absent", clients |-> {}]

(* The manager inside g_object_new: the private data is zeroed and the *)
(* signals are connected; arg is the no_timeout argument.              *)
ManagerConstructing(arg) ==
  [phase |-> "constructing", arg |-> arg, no_timeout |-> FALSE,
   timeout_id |-> 0, pending |-> {}, devs |-> [i \in MgrDevices |-> DevAbsent]]

(* g_timeout_add_seconds: the id of the new source, one no pending     *)
(* source has                                                          *)
NewSourceId(pending) ==
  CHOOSE id \in TimerIds \ pending : \A j \in TimerIds \ pending : id <= j

(* the "in-use" property of a device: its table of clients is not empty *)
InUse(d) == d.clients # {}

(* fprint_manager_in_use_notified *)
fprint_manager_in_use_notified(m) ==
  LET removed == [m EXCEPT !.pending = IF m.timeout_id > 0 THEN @ \ {m.timeout_id} ELSE @,
                           !.timeout_id = 0]
      num_devices_used ==
        Cardinality({i \in MgrDevices : /\ removed.devs[i].state # "absent"
                                        /\ InUse(removed.devs[i])})
      id == NewSourceId(removed.pending)
  IN  IF removed.no_timeout THEN removed
      ELSE IF num_devices_used = 0
           THEN [removed EXCEPT !.timeout_id = id, !.pending = @ \cup {id}]
           ELSE removed

(* g_object_notify (rdev, "in-use"): the manager's handler runs while  *)
(* it is connected                                                     *)
NotifyInUse(m, i) ==
  IF m.devs[i].state = "exported" THEN fprint_manager_in_use_notified(m) ELSE m

MgrCanArm(m) == m.pending \ {m.timeout_id} # TimerIds

(* device_added_cb, from fp_context_enumerate or from a hotplug event *)
DeviceAdded ==
  /\ mgr.phase \in {"constructing", "running"}
  /\ \E i \in MgrDevices :
       /\ mgr.devs[i].state = "absent"
       /\ mgr' = [mgr EXCEPT !.devs[i].state = "exported"]
  /\ UNCHANGED <<devVars, pamVars, discVars, sessVars>>

(* device_removed_cb: the signal is connected before                   *)
(* fp_context_enumerate iterates the main context                      *)
DeviceRemoved ==
  /\ mgr.phase \in {"constructing", "running"}
  /\ MgrCanArm(mgr)
  /\ \E i \in MgrDevices :
       /\ mgr.devs[i].state = "exported"
       /\ mgr' = fprint_manager_in_use_notified([mgr EXCEPT !.devs[i].state = "removed"])
  /\ UNCHANGED <<devVars, pamVars, discVars, sessVars>>

(* fprint_manager_new once g_object_new has returned *)
ManagerNew ==
  /\ mgr.phase = "constructing"
  /\ mgr.pending # TimerIds
  /\ LET id == NewSourceId(mgr.pending)
     IN  mgr' = IF mgr.arg
                THEN [mgr EXCEPT !.phase = "running", !.no_timeout = TRUE]
                ELSE [mgr EXCEPT !.phase = "running", !.no_timeout = FALSE,
                                 !.timeout_id = id, !.pending = @ \cup {id}]
  /\ UNCHANGED <<devVars, pamVars, discVars, sessVars>>

(* _fprint_device_add_client for a sender the table does not hold, in  *)
(* a method call on an exported device                                 *)
MgrAddClient ==
  /\ mgr.phase = "running"
  /\ MgrCanArm(mgr)
  /\ \E i \in MgrDevices, c \in Callers :
       /\ mgr.devs[i].state = "exported"
       /\ c \notin mgr.devs[i].clients
       /\ mgr' = NotifyInUse([mgr EXCEPT !.devs[i].clients = @ \cup {c}], i)
  /\ UNCHANGED <<devVars, pamVars, discVars, sessVars>>

(* The end of _fprint_device_client_vanished: the client leaves the    *)
(* table, and in-use is notified when the table is empty.              *)
MgrClientVanished ==
  /\ mgr.phase = "running"
  /\ MgrCanArm(mgr)
  /\ \E i \in MgrDevices, c \in Callers :
       /\ c \in mgr.devs[i].clients
       /\ LET left == [mgr EXCEPT !.devs[i].clients = @ \ {c}]
          IN  mgr' = IF left.devs[i].clients = {} THEN NotifyInUse(left, i) ELSE left
  /\ UNCHANGED <<devVars, pamVars, discVars, sessVars>>

(* fprint_manager_timeout_cb: a pending source fires, exit (0) *)
TimeoutCb ==
  /\ mgr.phase = "running"
  /\ mgr.pending # {}
  /\ mgr' = [mgr EXCEPT !.phase = "exited"]
  /\ UNCHANGED <<devVars, pamVars, discVars, sessVars>>

MgrNext ==
  \/ DeviceAdded \/ DeviceRemoved \/ ManagerNew
  \/ MgrAddClient \/ MgrClientVanished \/ TimeoutCb

MgrInit == \E arg \in BOOLEAN : mgr = ManagerConstructing(arg)

MgrIdle == mgr = [ManagerConstructing(FALSE) EXCEPT !.phase = "idle"]

(* ------------------------------------------------------------------ *)
(* The session slot (src/src/device.c): priv->_session holds NULL, a  *)
(* SessionData or, while a reader takes its reference, the address of *)
(* the slot itself ("invalid").  Every atomic operation and every     *)
(* plain read of the slot is one step of the thread that makes it.    *)
(* An object is "unalloc" until g_new0 returns it, "live" until       *)
(* g_free, then "freed"; g_new0 may hand out a freed address again.   *)
(* touched records a reference count changed on memory not live.      *)
(* ------------------------------------------------------------------ *)
Threads == {"t1", "t2"}
Sessions == {"s1", "s2"}

NoObject == [state |-> "unalloc", refcount |-> 0, complete |-> FALSE]
ThreadIdle == [pc |-> "idle", cur |-> "NULL", new |-> "NULL",
               held |-> [x \in Sessions |-> 0]]

SlotInit == [slot |-> "NULL", obj |-> [x \in Sessions |-> NoObject],
             th |-> [t \in Threads |-> ThreadIdle], touched |-> FALSE, failed |-> FALSE]

Holds(w, t) == w.th[t].held["s1"] + w.th[t].held["s2"]

(* g_atomic_int_inc (&x->_refcount) *)
RefInc(w, x) ==
  [w EXCEPT !.obj[x].refcount = @ + 1,
            !.touched = @ \/ w.obj[x].state # "live"]

(* session_data_unref: g_atomic_int_dec_and_test, and the last         *)
(* reference frees the object                                          *)
session_data_unref(w, x) ==
  LET d == [w EXCEPT !.obj[x].refcount = @ - 1,
                     !.touched = @ \/ w.obj[x].state # "live"]
  IN  IF d.obj[x].refcount = 0
      THEN [d EXCEPT !.obj[x].state = "freed", !.obj[x].complete = FALSE]
      ELSE d

(* g_atomic_pointer_compare_and_exchange (&priv->_session, old, new) *)
CasOk(w, old) == w.slot = old
Cas(w, old, new) == IF CasOk(w, old) THEN [w EXCEPT !.slot = new] ELSE w

(* session_data_get taking the pointer it read without marking the    *)
(* slot busy                                                           *)
get_mark_without_busy(w, t) ==
  IF w.th[t].cur = "invalid"
  THEN [w EXCEPT !.th[t].pc = "g_read"]
  ELSE [w EXCEPT !.th[t].pc = "g_inc"]

(* session_data_get: the compare-and-exchange that marks the slot busy *)
(* for the pointer that was read                                       *)
session_data_get_mark(w, t) ==
  LET cur == w.th[t].cur IN
  IF cur = "invalid" \/ ~CasOk(w, cur)
  THEN [w EXCEPT !.th[t].pc = "g_read"]
  ELSE [Cas(w, cur, "invalid") EXCEPT !.th[t].pc = "g_inc"]

(* session_data_get: the swap back, and g_assert_not_reached when it   *)
(* fails                                                               *)
session_data_get_back(w, t) ==
  LET cur == w.th[t].cur IN
  IF CasOk(w, "invalid")
  THEN [Cas(w, "invalid", cur) EXCEPT
          !.th[t].pc = "idle", !.th[t].cur = "NULL",
          !.th[t].held = IF cur = "NULL" THEN @ ELSE [@ EXCEPT ![cur] = @ + 1]]
  ELSE [w EXCEPT !.th[t].pc = "abort", !.failed = TRUE]

(* session_data_set_new: the compare-and-exchange that puts the new    *)
(* pointer in place of the one that was read                           *)
session_data_set_new_swap(w, t) ==
  LET old == w.th[t].cur IN
  IF old = "invalid" \/ ~CasOk(w, old)
  THEN [w EXCEPT !.th[t].pc = "s_read"]
  ELSE [Cas(w, old, w.th[t].new) EXCEPT !.th[t].pc = "s_unref"]

SessFrame == UNCHANGED <<devVars, pamVars, discVars, mgrVars>>

(* a caller enters session_data_get *)
GetCall ==
  /\ \E t \in Threads :
       /\ ~sd.failed /\ sd.th[t].pc = "idle"
       /\ Holds(sd, t) < MaxHeld
       /\ sd' = [sd EXCEPT !.th[t].pc = "g_read"]
  /\ SessFrame

(* cur = priv->_session, in session_data_get and session_data_set_new *)
SlotRead ==
  /\ \E t \in Threads :
       /\ ~sd.failed /\ sd.th[t].pc \in {"g_read", "s_read"}
       /\ sd' = [sd EXCEPT !.th[t].cur = sd.slot,
                           !.th[t].pc = IF sd.th[t].pc = "g_read" THEN "g_cas" ELSE "s_cas"]
  /\ SessFrame

GetMark ==
  /\ \E t \in Threads :
       /\ ~sd.failed /\ sd.th[t].pc = "g_cas"
       /\ sd' = session_data_get_mark(sd, t)
  /\ SessFrame

GetRef ==
  /\ \E t \in Threads :
       /\ ~sd.failed /\ sd.th[t].pc = "g_inc"
       /\ sd' = [(IF sd.th[t].cur = "NULL" THEN sd ELSE RefInc(sd, sd.th[t].cur))
                   EXCEPT !.th[t].pc = "g_back"]
  /\ SessFrame

GetBack ==
  /\ \E t \in Threads :
       /\ ~sd.failed /\ sd.th[t].pc = "g_back"
       /\ sd' = session_data_get_back(sd, t)
  /\ SessFrame

(* a caller enters session_data_set_new: with a sender and a username  *)
(* g_new0 gives an object, without them new stays NULL                 *)
SetNewCall ==
  /\ \E t \in Threads, withSender \in BOOLEAN :
       /\ ~sd.failed /\ sd.th[t].pc = "idle"
       /\ IF withSender
            THEN /\ Holds(sd, t) < MaxHeld
                 /\ \E x \in Sessions :
                      /\ sd.obj[x].state \in {"unalloc", "freed"}
                      /\ sd' = [sd EXCEPT !.obj[x] = [state |-> "live", refcount |-> 0,
                                                      complete |-> FALSE],
                                          !.th[t].new = x, !.th[t].pc = "s_fill"]
            ELSE sd' = [sd EXCEPT !.th[t].new = "NULL", !.th[t].pc = "s_read"]
  /\ SessFrame

(* new->_refcount = 2 and the sender and username are stored *)
SetNewFill ==
  /\ \E t \in Threads :
       /\ ~sd.failed /\ sd.th[t].pc = "s_fill"
       /\ sd' = [sd EXCEPT !.obj[sd.th[t].new].refcount = 2,
                           !.obj[sd.th[t].new].complete = TRUE,
                           !.th[t].pc = "s_read"]
  /\ SessFrame

SetNewSwap ==
  /\ \E t \in Threads :
       /\ ~sd.failed /\ sd.th[t].pc = "s_cas"
       /\ sd' = session_data_set_new_swap(sd, t)
  /\ SessFrame

(* the internal reference of the old session is dropped and new is     *)
(* returned                                                            *)
SetNewUnref ==
  /\ \E t \in Threads :
       /\ ~sd.failed /\ sd.th[t].pc = "s_unref"
       /\ LET old == sd.th[t].cur
              new == sd.th[t].new
              w == IF old = "NULL" THEN sd ELSE session_data_unref(sd, old)
          IN  sd' = [w EXCEPT !.th[t].pc = "idle", !.th[t].cur = "NULL", !.th[t].new = "NULL",
                              !.th[t].held = IF new = "NULL" THEN @
                                             ELSE [@ EXCEPT ![new] = @ + 1]]
  /\ SessFrame

(* a caller drops a reference it holds *)
Unref ==
  /\ \E t \in Threads, x \in Sessions :
       /\ ~sd.failed /\ sd.th[t].pc = "idle"
       /\ sd.th[t].held[x] > 0
       /\ sd' = [session_data_unref(sd, x) EXCEPT !.th[t].held[x] = @ - 1]
  /\ SessFrame

SessNext ==
  \/ GetCall \/ SlotRead \/ GetMark \/ GetRef \/ GetBack
  \/ SetNewCall \/ SetNewFill \/ SetNewSwap \/ SetNewUnref \/ Unref

SessInit == sd = SlotInit

SessIdle == sd = [SlotInit EXCEPT !.th = [t \in Threads |-> [ThreadIdle EXCEPT !.pc = "off"]]]

(* ------------------------------------------------------------------ *)
(* Specifications                                                     *)
(* ------------------------------------------------------------------ *)
Init == DeviceInit /\ PamIdle /\ DiscIdle /\ MgrIdle /\ SessIdle

DeviceIdle ==
  /\ session = NoSession
  /\ current_action = "NONE"
  /\ current_cancellable = "null"
  /\ current_cancel_invocation = NoInv
  /\ verify_data = NoFinger
  /\ identify_data = {}
  /\ enroll_data = NoFinger
  /\ clients = {}
  /\ devOpen = FALSE
  /\ devOp = NoOp
  /\ failq = <<>>
  /\ supportsIdentify = FALSE
  /\ store = [u \in Users |-> {}]
  /\ stack = <<>>
  /\ overtake = FALSE
  /\ connected = {}
  /\ crashed = FALSE
  /\ hist = HistInit

PamSpecInit == DeviceIdle /\ PamInit /\ DiscIdle /\ MgrIdle /\ SessIdle
PamSpec == PamSpecInit /\ [][PamNext]_vars

(* The module with fp-max-tries-switch-to-pw set, under either         *)
(* strategy: pam_sm_authenticate sets the option whatever the others   *)
(* are.                                                                *)
SwitchOptions ==
  {o \in [no_pthread : BOOLEAN, no_need_enter : BOOLEAN, max_tries : 1..MaxTries,
          pw_first : BOOLEAN, max_tries_switch_to_pw : {TRUE}, timeout : Timeouts] :
     /\ o.no_pthread => o.no_need_enter
     /\ o.pw_first => o.no_pthread}
SwitchSpecInit == DeviceIdle /\ PamInitOf(SwitchOptions) /\ DiscIdle /\ MgrIdle /\ SessIdle
SwitchSpec == SwitchSpecInit /\ [][PamNext]_vars

(* Two runs of do_auth, one after the other: the threaded strategy     *)
(* first, then the single-threaded one under the same options, each    *)
(* with the record of its external events.  With max-tries 1 every     *)
(* result of do_verify is reached by one recorded event.               *)
StrategyInit ==
  /\ DeviceIdle /\ DiscIdle /\ MgrIdle /\ SessIdle
  /\ opt \in {o \in Options : ~o.no_pthread /\ o.no_need_enter /\ o.max_tries = 1}
  /\ \E claimed \in BOOLEAN :
       /\ data = DataInit(opt, claimed)
       /\ main = MainInit(IF claimed THEN "loop" ELSE "cancel", claimed)
       /\ ph = [PhInit EXCEPT !.events = <<IF claimed THEN "claimed" ELSE "unclaimed">>]
  /\ flags = FlagsInit
  /\ pwt = PwtInit("sleep")
  /\ bus = BusInit
  /\ clock = 0
  /\ authtok = "unset"

StrategyNext == PamNext \/ SecondRun
StrategySpec == StrategyInit /\ [][StrategyNext]_vars

(* Attempts that follow one another in one process *)
AttemptOptions ==
  {o \in Options : o.max_tries = 1 /\ o.timeout = Timeout /\ o.no_need_enter
                    /\ ~o.pw_first /\ ~o.max_tries_switch_to_pw}
AttemptsNext == PamNext \/ NextAttempt
AttemptsSpecInit == DeviceIdle /\ PamInitOf(AttemptOptions) /\ DiscIdle /\ MgrIdle /\ SessIdle
AttemptsSpec == AttemptsSpecInit /\ [][AttemptsNext]_vars

DiscSpecInit == DeviceIdle /\ PamIdle /\ DiscInit /\ MgrIdle /\ SessIdle
DiscSpec == DiscSpecInit /\ [][DiscNext]_vars

MgrSpecInit == DeviceIdle /\ PamIdle /\ DiscIdle /\ MgrInit /\ SessIdle
MgrSpec == MgrSpecInit /\ [][MgrNext]_vars

SessSpecInit == DeviceIdle /\ PamIdle /\ DiscIdle /\ MgrIdle /\ SessInit
SessSpec == SessSpecInit /\ [][SessNext]_vars

Spec == Init /\ [][Next]_vars

(* The completions the main loop is sure to deliver: a callback that   *)
(* is due, the completion of an operation that was cancelled, and the  *)
(* rest of a handler whose nested loop has nothing left to wait for.   *)
Fairness ==
  /\ WF_vars(OpenDone)
  /\ WF_vars(CloseDone)
  /\ WF_vars(FailedCallDone)
  /\ WF_vars(devOp.cancelled /\ VerifyDone)
  /\ WF_vars(devOp.cancelled /\ IdentifyDone)
  /\ WF_vars(devOp.cancelled /\ EnrollDone)
  /\ WF_vars(VanishedCancel)
  /\ WF_vars(VanishedResume)
  /\ WF_vars(ReleaseResume)

FairSpec == Init /\ [][Next]_vars /\ Fairness

(* ------------------------------------------------------------------ *)
(* Properties of the daemon                                           *)
(* ------------------------------------------------------------------ *)
Sent(st, P(_)) == Has(st.r.out, P)
Replies(st) == {i \in 1..Len(st.r.out) : st.r.out[i].type = "reply"}

(* C1: the device has at most one session: a Claim that arrives while  *)
(* a session exists, the one whose open is still pending included, is  *)
(* answered AlreadyInUse and nothing else, and it leaves the session   *)
(* and the current action as they were.                                *)
C1_ClaimWhileClaimedRefused ==
  session # NoSession =>
    \A c \in Callers : \A st \in ClaimSteps(c) :
      /\ \A i \in Replies(st) : st.r.out[i] = Reply(Inv("Claim", c), "AlreadyInUse")
      /\ Replies(st) # {}
      /\ st.r.session = session
      /\ st.r.current_action = current_action

C1_Witness ==
  /\ session # NoSession
  /\ current_action = "OPEN"
  /\ \E c \in Callers : \E st \in ClaimSteps(c) :
       Sent(st, LAMBDA e : e = Reply(Inv("Claim", c), "AlreadyInUse"))

(* C2: in every verify cycle, from an accepted VerifyStart until the   *)
(* action is no longer a verify or an identify, exactly one            *)
(* VerifyStatus signal with done = TRUE has been emitted.              *)
C2_DoneOncePerCycle ==
  [][(hist.inCycle /\ ~hist'.inCycle /\ ~crashed') => hist'.doneCount = 1]_vars

(* C3: a Release of the claimant that finds a verify, identify or      *)
(* enroll in flight cancels it and waits.  Until the completion        *)
(* callback of that operation has run and the action is None, no close *)
(* is started and no Release is answered; after that, a Release is     *)
(* answered only by the completion of the close, with the session      *)
(* cleared.                                                            *)
InFlight == current_action \in {"VERIFY", "IDENTIFY", "ENROLL"} /\ current_cancellable # "null"

C3_ReleaseWaitsForCallback ==
  /\ InFlight /\ session # NoSession =>
       \A st \in ReleaseSteps(session.sender) :
         Sent(st, LAMBDA e : e.type = "polkit" /\ e.result = "yes") =>
           /\ st.r.current_cancellable = "cancelled"
           /\ devOp.kind \in Cancellable => st.r.devOp.cancelled
           /\ ~Sent(st, IsCloseCall)
           /\ ~Sent(st, IsReleaseAnswer)
           /\ st.r.session = session
           /\ st.r.current_action = current_action
  /\ hist.rel = "pending" =>
       \A st \in Steps : ~Sent(st, IsCloseCall) /\ ~Sent(st, IsReleaseAnswer)
  /\ hist.rel = "settled" =>
       \A st \in Steps :
         Sent(st, IsReleaseAnswer) =>
           st.by = "CloseDone" /\ st.r.session = NoSession /\ ~st.r.devOpen

C3_Witness ==
  /\ hist.rel = "settled"
  /\ current_action = "CLOSE"
  /\ \E st \in CloseDoneSteps : Sent(st, IsReleaseAnswer)

(* C4: once the claimant has left the bus, whatever the current action *)
(* was, the daemon comes to the state with no action, the device       *)
(* closed and the session cleared.                                     *)
Lost == \E i \in 1..Len(stack) : stack[i].fn = "vanished"

Released == ~Lost /\ current_action = "NONE" /\ session = NoSession /\ ~devOpen

C4_VanishedClaimantReleased == Lost ~> Released

(* The enrollment in flight ends with FP_DEVICE_ERROR_DATA_FULL: what  *)
(* enroll_cb leaves, for one answer gc of the device and of the store. *)
EnrollFull(gc) == enroll_cb([Cur EXCEPT !.devOp = NoOp], FALSE, "DATA_FULL", gc, "ok")

(* The templates the device lists that are stored for no user.         *)
ForeignListed(gc) == {p \in gc.listed : ~IsKnown(Cur, p)}

IsTerminalEnrollStatus(e) == e.type = "signal" /\ e.name = "EnrollStatus" /\ e.done
IsDeleteCall(e) == e.type = "call" /\ e.name = "delete_print_sync"

(* C11: an enrollment ends with data-full, the device lists its        *)
(* templates and the stored files load.  If exactly one listed         *)
(* template is foreign and its deletion succeeds, that template is the *)
(* one deleted, no terminal EnrollStatus is emitted and the enrollment *)
(* is started again with the same finger, token and action.  If no     *)
(* listed template is foreign, nothing is deleted and                  *)
(* EnrollStatus(enroll-data-full, TRUE) is emitted.                    *)
C11_DataFullGarbageCollects ==
  ~crashed /\ devOp.kind = "enroll" /\ ~devOp.cancelled /\ session # NoSession =>
    \A gc \in GcInputs(Cur) :
      (gc.listOk => gc.loadable = Fingers) =>
        LET r == EnrollFull(gc) IN
        /\ Cardinality(ForeignListed(gc)) = 1 /\ gc.delOk =>
             /\ Has(r.out, LAMBDA e : IsDeleteCall(e) /\ e.result = "foreign")
             /\ ~Has(r.out, IsTerminalEnrollStatus)
             /\ r.devOp.kind = "enroll"
             /\ r.enroll_data = enroll_data
             /\ r.current_cancellable = current_cancellable
             /\ r.current_action = current_action
        /\ ForeignListed(gc) = {} =>
             /\ ~Has(r.out, IsDeleteCall)
             /\ Has(r.out, LAMBDA e : e = Signal("EnrollStatus", "enroll-data-full", TRUE))


IsStopAnswer(e) == e.type = "reply" /\ e.name = "VerifyStop" /\ e.result = "ok"

(* The handler of the call ran: the authorization handler let it pass. *)
Handled(st) == Sent(st, LAMBDA e : e.type = "polkit" /\ e.result = "yes")

(* C12: VerifyStop from the claimant, once authorized.  With no action *)
(* it is answered NoActionInProgress and with an enrollment active     *)
(* AlreadyInUse, and in both cases the action, the token, the pending  *)
(* stop call and the status flag stay as they were.  With a verify or  *)
(* identify whose token exists, the token is cancelled, the call is    *)
(* kept as the pending stop call and nothing is answered.  With a      *)
(* verify or identify whose token is gone, it is answered at once and  *)
(* the action becomes None.  A stop call is answered by no dispatch    *)
(* but these: the handler that finds no token, and the tail of a       *)
(* completion callback (verify_cb, identify_cb, enroll_cb), which      *)
(* answers the pending stop call.                                      *)
C12_VerifyStopByState ==
  /\ session # NoSession =>
       \A st \in VerifyStopSteps(session.sender) :
         LET inv == Inv("VerifyStop", session.sender) IN
         Handled(st) =>
           CASE current_action \in {"NONE", "ENROLL"} ->
                  /\ \A i \in Replies(st) :
                       st.r.out[i] = Reply(inv, IF current_action = "NONE"
                                                THEN "NoActionInProgress" ELSE "AlreadyInUse")
                  /\ Replies(st) # {}
                  /\ st.r.current_action = current_action
                  /\ st.r.current_cancellable = current_cancellable
                  /\ st.r.current_cancel_invocation = current_cancel_invocation
                  /\ st.r.session = session
             [] current_action \in {"VERIFY", "IDENTIFY"} /\ current_cancellable # "null" ->
                  /\ Replies(st) = {}
                  /\ st.r.current_cancellable = "cancelled"
                  /\ st.r.current_cancel_invocation = inv
                  /\ st.r.current_action = current_action
             [] current_action \in {"VERIFY", "IDENTIFY"} /\ current_cancellable = "null" ->
                  /\ \A i \in Replies(st) : st.r.out[i] = Reply(inv, "ok")
                  /\ Replies(st) # {}
                  /\ st.r.current_action = "NONE"
             [] OTHER -> TRUE
  /\ \A st \in Steps :
       Sent(st, IsStopAnswer) =>
         \/ st.by \in {"VerifyDone", "IdentifyDone", "EnrollDone", "FailedCallDone"}
         \/ st.by = "VerifyStop" /\ current_cancellable = "null"

C12_Witness ==
  /\ current_action = "VERIFY"
  /\ current_cancellable = "cancelled"
  /\ devOp.kind = "verify"
  /\ session # NoSession
  /\ current_cancel_invocation = Inv("VerifyStop", session.sender)
  /\ \E st \in VerifyDoneSteps : Sent(st, IsStopAnswer)

(* The asynchronous operations the daemon has started on the device    *)
(* and whose completion callback has not run yet.                      *)
OpsInFlight == (IF devOp.kind = "none" THEN 0 ELSE 1) + Len(failq)

StartSteps(c) == VerifyStartSteps(c) \cup EnrollStartSteps(c)
IsStartAccepted(e) ==
  e.type = "reply" /\ e.name \in {"VerifyStart", "EnrollStart"} /\ e.result = "ok"

ActionKept(st) ==
  /\ st.r.current_action = current_action
  /\ st.r.current_cancellable = current_cancellable
  /\ st.r.verify_data = verify_data
  /\ st.r.identify_data = identify_data
  /\ st.r.enroll_data = enroll_data

(* C13: VerifyStart and EnrollStart are accepted only from the         *)
(* claimant and with no current action.  On an unclaimed device they   *)
(* are answered ClaimDevice, from another caller AlreadyInUse, and     *)
(* from the claimant with an action active AlreadyInUse (or            *)
(* InvalidFingername for an enrollment that names no finger); a        *)
(* refused call leaves the action, the token and the verify, identify  *)
(* and enroll data as they were.  So the device runs at most one       *)
(* operation at a time: no operation is started while the completion   *)
(* callback of another is still due.                                   *)
C13_StartOnlyWhenIdle ==
  /\ \A c \in Callers : \A st \in StartSteps(c) :
       /\ Sent(st, IsStartAccepted) =>
            session # NoSession /\ session.sender = c /\ current_action = "NONE"
       /\ session = NoSession =>
            /\ \A i \in Replies(st) : st.r.out[i].result = "ClaimDevice"
            /\ Replies(st) # {}
            /\ ActionKept(st)
       /\ session # NoSession /\ session.sender # c =>
            /\ \A i \in Replies(st) : st.r.out[i].result = "AlreadyInUse"
            /\ Replies(st) # {}
            /\ ActionKept(st)
       /\ session # NoSession /\ session.sender = c /\ current_action # "NONE" /\ Handled(st) =>
            /\ \A i \in Replies(st) : st.r.out[i].result \in {"AlreadyInUse", "InvalidFingername"}
            /\ Replies(st) # {}
            /\ ActionKept(st)
  /\ OpsInFlight <= 1

CycleKept(st) ==
  /\ st.r.current_action = current_action
  /\ st.r.current_cancellable = current_cancellable
  /\ st.r.current_cancel_invocation = current_cancel_invocation
  /\ st.r.session = session
  /\ st.r.verify_data = verify_data
  /\ st.r.identify_data = identify_data

(* C14: a retryable outcome of a verify or an identify.  The match     *)
(* callback that reports it emits VerifyStatus(code, FALSE) and        *)
(* nothing else; the completion callback that follows starts the same  *)
(* operation again and sends nothing to the client.  Both leave the    *)
(* current action, the token, the pending stop call, the session with  *)
(* its status flag, and the template or gallery as they were.          *)
C14_RetryRestartsSameOperation ==
  /\ \A st \in MatchCbSteps :
       st.r.devOp.reported \in RetryCodes =>
         /\ st.r.out = <<Signal("VerifyStatus",
                                verify_result_to_name(FALSE, st.r.devOp.reported), FALSE)>>
         /\ st.r.devOp.kind = devOp.kind
         /\ CycleKept(st)
  /\ devOp.reported \in RetryCodes /\ ~devOp.cancelled =>
       \A st \in VerifyDoneSteps \cup IdentifyDoneSteps :
         /\ st.r.out = <<LibCall(devOp.kind)>>
         /\ st.r.devOp = [kind |-> devOp.kind, reported |-> "none", cancelled |-> FALSE]
         /\ CycleKept(st)

C14_Witness ==
  /\ devOp.kind = "verify"
  /\ devOp.reported \in RetryCodes
  /\ ~devOp.cancelled
  /\ current_action = "VERIFY"
  /\ current_cancellable = "active"
  /\ \E st \in VerifyDoneSteps : st.r.devOp.kind = "verify" /\ st.r.verify_data = verify_data

(* The dispatches in which the open of the device fails: the open's    *)
(* completion with an error, and the callback of an open the library   *)
(* refused.                                                            *)
OpenFailedSteps ==
  {st \in OpenDoneSteps : ~st.r.devOpen}
  \cup (IF failq # <<>> /\ Head(failq).kind = "open" THEN FailedCallDoneSteps ELSE {})

(* C15: when the open that a Claim started fails, the caller of that   *)
(* Claim is answered Internal and nothing else is answered, the        *)
(* session is cleared and the current action is None, and the claim    *)
(* check then lets a Claim of any caller pass.                         *)
C15_OpenFailureClearsSession ==
  \A st \in OpenFailedSteps :
    /\ ~st.r.crashed
    /\ session # NoSession
    /\ session.invocation = Inv("Claim", session.sender)
    /\ \A i \in Replies(st) : st.r.out[i] = Reply(session.invocation, "Internal")
    /\ Replies(st) # {}
    /\ st.r.session = NoSession
    /\ st.r.current_action = "NONE"
    /\ \A c \in Callers : fprint_device_check_claimed(st.r, c, "UNCLAIMED").ok

ClaimedMethods == {"Release", "VerifyStart", "VerifyStop", "EnrollStart", "EnrollStop",
                   "DeleteEnrolledFingers2"}
Methods == ClaimedMethods \cup {"Claim", "ListEnrolledFingers", "DeleteEnrolledFingers"}

(* What a caller may pass and the lookups may answer, by method: only  *)
(* the methods that take a username look the caller up.                *)
MethodInputs(m) == IF NeedsUserAuth(m) THEN AuthInputs ELSE {OwnUser(pk) : pk \in BOOLEAN}

IsPolkit(e) == e.type = "polkit"
IsGranted(e) == e.type = "polkit" /\ e.result = "yes"
Refusals == {"ClaimDevice", "AlreadyInUse", "PermissionDenied", "Internal"}

(* C16: a call that needs the claimed state, on a device that is       *)
(* unclaimed or claimed by another caller, is answered ClaimDevice or  *)
(* AlreadyInUse and polkit is not asked.  For every method, the        *)
(* authorization handler lets the call through only with polkit's      *)
(* grant for the sender as the last thing it obtained; a call it does  *)
(* not let through is answered with one error and the method handler   *)
(* does not run: the dispatch leaves the device's state untouched.  In *)
(* a dispatch whose handler ran, every question to polkit came before  *)
(* anything else was sent.                                             *)
C16_ClaimCheckThenPermission ==
  /\ \A c \in Callers : \A m \in ClaimedMethods : \A pk \in BOOLEAN :
       LET a == action_authorization_handler(Cur, m, c, "", TRUE, TRUE, pk) IN
       session = NoSession \/ session.sender # c =>
         /\ ~a.go
         /\ a.s.out = <<Reply(Inv(m, c), IF session = NoSession THEN "ClaimDevice"
                                         ELSE "AlreadyInUse")>>
  /\ \A c \in Callers : \A m \in Methods : \A i \in MethodInputs(m) :
       LET a == Authorized(m, c, i) IN
       IF a.go
       THEN /\ Len(a.s.out) > 0
            /\ a.s.out[Len(a.s.out)] = Polkit(c, "yes")
            /\ \A k \in 1..Len(a.s.out) : IsGranted(a.s.out[k])
       ELSE /\ Len(a.s.out) > 0
            /\ a.s.out[Len(a.s.out)].type = "reply"
            /\ a.s.out[Len(a.s.out)].result \in Refusals
  /\ \A c \in Callers :
       \A st \in ClaimSteps(c) \cup ReleaseSteps(c) \cup StartSteps(c) \cup VerifyStopSteps(c)
                 \cup EnrollStopSteps(c) \cup ListEnrolledFingersSteps(c) :
         LET asked == {k \in 1..Len(st.r.out) : IsPolkit(st.r.out[k])} IN
         IF asked # {} /\ IsGranted(st.r.out[Cardinality(asked)])
         THEN asked = 1..Cardinality(asked)
         ELSE /\ [st.r EXCEPT !.out = <<>>] = Cur
              /\ Cardinality(Replies(st)) = 1
              /\ \A j \in Replies(st) : st.r.out[j].result \in Refusals

C16_Witness ==
  /\ session # NoSession
  /\ current_action = "VERIFY"
  /\ \E c \in Callers \ {session.sender} : \E st \in VerifyStopSteps(c) :
       st.r.out = <<Reply(Inv("VerifyStop", c), "AlreadyInUse")>>
  /\ \E st \in VerifyStopSteps(session.sender) :
       /\ st.r.out[1] = Polkit(session.sender, "yes")
       /\ st.r.current_cancellable = "cancelled"

(* The Claim of caller c with the inputs i: the authorization handler, *)
(* then fprint_device_claim.                                           *)
ClaimWith(c, i) ==
  LET a == Authorized("Claim", c, i)
  IN IF a.go THEN fprint_device_claim(a.s, c, a.user) ELSE a.s

(* C17: a Claim records in the session the OS username of its caller,  *)
(* or the username it asked for when polkit granted set-username to    *)
(* that caller in that call; when set-username is denied the Claim is  *)
(* answered PermissionDenied and no session is created.  No other      *)
(* dispatch gives a session its username.                              *)
C17_ForeignUsernameNeedsGrant ==
  /\ \A c \in Callers : \A i \in AuthInputs :
       LET r == ClaimWith(c, i)
           other == i.lookupOk /\ i.username \notin {"", OsUser(c)}
       IN
       /\ r.session # session =>
            /\ r.session.sender = c
            /\ \/ r.session.username = OsUser(c)
               \/ /\ other /\ i.pkSet
                  /\ r.session.username = i.username
                  /\ r.out[1] = Polkit(c, "yes")
       /\ session = NoSession /\ other /\ ~i.pkSet =>
            /\ r.session = NoSession
            /\ r.out = <<Polkit(c, "no"), Reply(Inv("Claim", c), "PermissionDenied")>>
  /\ \A st \in Steps :
       st.r.session # NoSession /\ st.r.session.username # session.username =>
         st.by = "Claim"

C17_Witness ==
  /\ session # NoSession
  /\ session.username # OsUser(session.sender)
  /\ session.invocation = NoInv
  /\ devOpen

(* C24: when enroll_cb has a print and saving it fails (serializing,   *)
(* making the directory or writing the file), the terminal             *)
(* EnrollStatus is enroll-failed; enroll-completed is emitted only     *)
(* when the print was saved.                                           *)
EnrollEnds(o) == enroll_cb([Cur EXCEPT !.devOp = NoOp], o.enrolled, o.error, NoGc, o.save)
IsEnrollResult(e, name) == e = Signal("EnrollStatus", name, TRUE)

C24_SaveFailureDowngrades ==
  ~crashed /\ devOp.kind = "enroll" /\ session # NoSession =>
    \A o \in {x \in EnrollOutcomes(devOp) : x.error # "DATA_FULL"} :
      LET r == EnrollEnds(o) IN
      /\ o.enrolled /\ o.save # "ok" =>
           /\ Has(r.out, LAMBDA e : IsEnrollResult(e, "enroll-failed"))
           /\ ~Has(r.out, LAMBDA e : IsEnrollResult(e, "enroll-completed"))
      /\ Has(r.out, LAMBDA e : IsEnrollResult(e, "enroll-completed")) =>
           o.enrolled /\ o.save = "ok"

(* C27: an enrollment ends with data-full and the stored files load.   *)
(* Whatever the device lists, garbage collection deletes no template   *)
(* that is stored for a known user and one of that user's fingers.     *)
C27_KnownTemplateKept ==
  ~crashed /\ devOp.kind = "enroll" /\ ~devOp.cancelled /\ session # NoSession =>
    \A gc \in GcInputs(Cur) :
      (gc.listOk => gc.loadable = Fingers) =>
        ~Has(EnrollFull(gc).out, LAMBDA e : IsDeleteCall(e) /\ e.result = "known")

(* The enrollment was started again by enroll_cb after a deletion.     *)
Restarted(r) ==
  /\ ~r.crashed /\ r.devOp.kind = "enroll"
  /\ Has(r.out, IsDeleteCall) /\ ~Has(r.out, IsTerminalEnrollStatus)

(* enroll_cb of the enrollment that r started again, ending data-full  *)
AgainFull(r, gc) ==
  enroll_cb([r EXCEPT !.devOp = NoOp, !.out = <<>>], FALSE, "DATA_FULL", gc, "ok")

(* C28: an enrollment that garbage collection has started again ends   *)
(* with data-full once more.  Whatever the device lists then, nothing  *)
(* is deleted, the enrollment is not started a third time and          *)
(* EnrollStatus(enroll-data-full, TRUE) is emitted.                    *)
C28_GarbageCollectOnce ==
  ~crashed /\ devOp.kind = "enroll" /\ ~devOp.cancelled /\ session # NoSession =>
    \A gc \in GcInputs(Cur) :
      LET r == EnrollFull(gc) IN
      Restarted(r) =>
        \A gc2 \in GcInputs(r) :
          LET r2 == AgainFull(r, gc2) IN
          /\ ~Has(r2.out, IsDeleteCall)
          /\ r2.devOp.kind # "enroll"
          /\ Has(r2.out, LAMBDA e : e = Signal("EnrollStatus", "enroll-data-full", TRUE))

(* The completion callbacks of the asynchronous operations, and the    *)
(* method handlers the property is about.                              *)
CompletionCallbacks ==
  {"OpenDone", "CloseDone", "VerifyDone", "IdentifyDone", "EnrollDone", "FailedCallDone"}
StopHandlers == {"VerifyStop", "EnrollStop"}
MethodHandlers == StopHandlers \cup {"Release", "Claim"}

TerminalCallbackSteps ==
  {st \in VerifyDoneSteps \cup IdentifyDoneSteps \cup EnrollDoneSteps :
     ~st.r.crashed /\ st.r.devOp.kind = "none" /\ st.r.failq = failq}

(* C31: a cancellation token exists only while the action is VERIFY,   *)
(* IDENTIFY or ENROLL, and a pending stop call only while a token      *)
(* exists and is cancelled; neither is left with the action None or    *)
(* without a session; and the terminal completion callback clears both. *)
C31_TokenFollowsAction ==
  ~crashed =>
    /\ current_cancellable # "null" => current_action \in {"VERIFY", "IDENTIFY", "ENROLL"}
    /\ current_cancel_invocation # NoInv => current_cancellable = "cancelled"
    /\ current_action = "NONE" \/ session = NoSession =>
         current_cancellable = "null" /\ current_cancel_invocation = NoInv
    /\ \A st \in TerminalCallbackSteps :
         st.r.current_cancellable = "null" /\ st.r.current_cancel_invocation = NoInv

StopSteps == UNION {VerifyStopSteps(c) \cup EnrollStopSteps(c) : c \in Callers}

(* C32: a stop call that is taken without an answer (the action is in  *)
(* flight) displaces no earlier stop call that still waits, and is the *)
(* pending stop call afterwards; and a pending stop call leaves the    *)
(* device only in a step that answers it, exactly once.                *)
C32_StopAnsweredOnce ==
  ~crashed =>
    /\ \A st \in StopSteps :
         ~st.r.crashed /\ Handled(st) /\ Replies(st) = {} =>
           /\ current_cancel_invocation = NoInv
           /\ st.r.current_cancel_invocation = Inv(st.by, st.who)
    /\ \A st \in Steps :
         /\ ~st.r.crashed /\ current_cancel_invocation # NoInv
         /\ st.r.current_cancel_invocation = NoInv
         => CountIn(st.r.out, LAMBDA e : e = Reply(current_cancel_invocation, "ok")) = 1

ClaimedCallSteps(c) ==
  ReleaseSteps(c) \cup StartSteps(c) \cup VerifyStopSteps(c) \cup EnrollStopSteps(c)

(* C34: while the invocation of Claim or Release is pending in the     *)
(* session, every call that needs the claimed state, from the claimant *)
(* as from anyone else, is answered AlreadyInUse and nothing else, and *)
(* leaves the action, the session and its pending invocation as they   *)
(* were; no close is started and no assertion is reached.              *)
C34_PendingInvocationBlocks ==
  ~crashed /\ session # NoSession /\ session.invocation # NoInv =>
    \A c \in Callers : \A st \in ClaimedCallSteps(c) :
      /\ ~st.r.crashed
      /\ st.r.out = <<Reply(Inv(st.by, c), "AlreadyInUse")>>
      /\ st.r.current_action = current_action
      /\ st.r.session = session
      /\ st.r.devOp = devOp

(* C35: every step that takes the action from VERIFY or IDENTIFY back  *)
(* to None, with the session kept, leaves the session's                *)
(* verify_status_reported false, for 1:1 verify as for 1:N identify.   *)
C35_ReportedFlagCleared ==
  ~crashed /\ current_action \in {"VERIFY", "IDENTIFY"} =>
    \A st \in Steps :
      ~st.r.crashed /\ st.r.current_action = "NONE" /\ st.r.session # NoSession =>
        ~st.r.session.verify_status_reported

IsMatchSignal(e) == e.type = "signal" /\ e.name = "VerifyStatus" /\ e.result = "verify-match"
IsFinalNoMatch(e) == e = Signal("VerifyStatus", "verify-no-match", TRUE)

AllVerifyStartSteps == UNION {VerifyStartSteps(c) : c \in Callers}

(* C37: a VerifyStart that is answered NoEnrolledPrints leaves the     *)
(* device as it was (the action, the token, the verify and identify    *)
(* data, the session), starts nothing in the library and emits no      *)
(* VerifyFingerSelected.                                               *)
C37_FailedStartLeavesState ==
  ~crashed =>
    \A st \in AllVerifyStartSteps :
      Sent(st, LAMBDA e : e.type = "reply" /\ e.result = "NoEnrolledPrints") =>
        /\ [st.r EXCEPT !.out = <<>>] = Cur
        /\ ~Sent(st, LAMBDA e : e.type = "signal" /\ e.name = "VerifyFingerSelected")
        /\ ~Sent(st, LAMBDA e : e.type = "call")

(* C38: a close (fp_device_close or fp_device_close_sync) is called    *)
(* only on an open device on which no open or close is in flight, at   *)
(* most once in a step; and a device without a session is not left     *)
(* open.                                                               *)
C38_CloseOncePerOpen ==
  ~crashed =>
    /\ \A st \in Steps :
         Sent(st, IsCloseCall) =>
           /\ devOpen
           /\ devOp.kind \notin {"open", "close"}
           /\ CountIn(st.r.out, IsCloseCall) = 1
    /\ session = NoSession /\ devOp.kind = "none" => ~devOpen

(* ------------------------------------------------------------------ *)
(* Properties of the manager                                          *)
(* ------------------------------------------------------------------ *)
Exported(i) == mgr.devs[i].state = "exported"

(* C25: once the manager is running, outside no-timeout mode a timer   *)
(* is pending only while no exported device is in use and at most one  *)
(* timer is pending; in no-timeout mode no timer is pending and the    *)
(* process has not exited on idle.                                     *)
C25_IdleExitTimer ==
  mgr.phase \in {"running", "exited"} =>
    /\ Cardinality(mgr.pending) <= 1
    /\ ~mgr.arg /\ mgr.pending # {} => \A i \in MgrDevices : Exported(i) => ~InUse(mgr.devs[i])
    /\ mgr.arg => mgr.pending = {} /\ mgr.phase # "exited"

(* ------------------------------------------------------------------ *)
(* Properties of the PAM module                                       *)
(* ------------------------------------------------------------------ *)

(* C5: threaded strategy, every interleaving of prompt_pw and the      *)
(* fingerprint loop: the side that concludes first decides.  If the    *)
(* match was recorded before pam_prompt returned, PAM_AUTHTOK is never *)
(* set to a typed password and do_auth returns PAM_SUCCESS; if         *)
(* pam_prompt returned a typed (non-empty) password before any match   *)
(* was recorded, do_auth does not return the fingerprint's success.    *)
C5_FirstToConcludeDecides ==
  /\ ph.first = "fp" => authtok # "password"
  /\ main.pc = "done" /\ ph.first = "fp" => main.ret = "PAM_SUCCESS"
  /\ main.pc = "done" /\ ph.first = "pw" => main.ret # "PAM_SUCCESS"

(* Nothing but the daemon's answers and the clock has acted on the     *)
(* verify loop: no signal, key, bus or poll error, no refused or       *)
(* unsent VerifyStart, no malformed or unknown message, no owner       *)
(* change, and no word from the password thread.                       *)
Undisturbed == ~ph.disturbed /\ ~data.stop_got_pw /\ ~flags.has_recieved_sigusr1

(* C6: with a timeout configured and no VerifyStatus arriving in the   *)
(* attempt, do_verify returns with timed_out set and                   *)
(* PAM_AUTHINFO_UNAVAIL, not before the attempt's deadline, whatever   *)
(* the strategy and whether or not no-need-enter is set.               *)
C6_QuietAttemptTimesOut ==
  main.pc = "returned" /\ Undisturbed /\ ph.starts > 0 /\ ~ph.heard =>
    /\ data.timed_out
    /\ main.ret = "PAM_AUTHINFO_UNAVAIL"
    /\ clock >= main.verification_end

(* C7: with max-tries = N, when N attempts in a row have each received *)
(* a terminal no-match, do_verify has called VerifyStart exactly N     *)
(* times and returns PAM_MAXTRIES; it returns PAM_MAXTRIES in no other *)
(* case.                                                               *)
C7_MaxTriesAfterNNoMatch ==
  main.pc = "returned" /\ Undisturbed =>
    /\ ph.nomatch = opt.max_tries =>
         main.ret = "PAM_MAXTRIES" /\ ph.starts = opt.max_tries
    /\ main.ret = "PAM_MAXTRIES" =>
         ph.nomatch = opt.max_tries /\ ph.starts = opt.max_tries

(* C8: max_tries changes only by going down by one, and only when the  *)
(* attempt's result is a terminal no-match; an attempt that received a *)
(* terminal no-match is closed with that decrement, unless a password  *)
(* came in; no VerifyStatus with done = FALSE changes it.              *)
C8_CounterFollowsNoMatch ==
  [][/\ data'.max_tries # data.max_tries =>
          /\ data'.max_tries = data.max_tries - 1
          /\ data.result = "verify-no-match"
          /\ main.pc = "stop"
     /\ (/\ main.pc = "stop" /\ main'.pc # "stop"
         /\ data.result = "verify-no-match" /\ ~data.stop_got_pw)
          => data'.max_tries = data.max_tries - 1]_vars

(* C9: once the attempt's result is verify-unknown-error or            *)
(* verify-disconnected, do_verify does not decrement max_tries, sends  *)
(* no further VerifyStart, and leaves the loop with                    *)
(* PAM_AUTHINFO_UNAVAIL.                                               *)
C9_DeviceErrorAbortsLoop ==
  [][data.result \in DeviceErrors /\ main.pc \in {"wait", "process", "poll", "after", "stop"} =>
       /\ data'.max_tries = data.max_tries
       /\ ph'.starts = ph.starts
       /\ main.pc \in {"after", "stop"} /\ main'.pc \notin {"after", "stop"} =>
            main'.pc = "returned" /\ main'.ret = "PAM_AUTHINFO_UNAVAIL"]_vars

C9_Witness ==
  /\ main.pc = "returned"
  /\ data.result = "verify-disconnected"
  /\ main.ret = "PAM_AUTHINFO_UNAVAIL"
  /\ data.max_tries = 2
  /\ ph.starts = 1

TerminalResults == {"verify-match", "verify-no-match"} \cup DeviceErrors

(* C18: once verify_result has stored a terminal result (match,        *)
(* no-match, unknown-error, disconnected) for the attempt, do_verify   *)
(* neither returns nor goes round to the next attempt except through   *)
(* the step that calls VerifyStop and then classifies the result.      *)
C18_StopBeforeClassify ==
  [][(/\ main.pc \in {"wait", "process", "poll", "after", "stop"}
      /\ data.result \in TerminalResults
      /\ main'.pc \in {"returned", "loop"})
       => main.pc = "stop"]_vars

(* C20: in the single-threaded strategy, from a key read in           *)
(* fingerprint mode (at the flush before the scan, or by the poll of   *)
(* the scan) until pam_prompt has returned, do_auth_no_pthread is on   *)
(* its way to the password prompt: do_verify has returned              *)
(* PAM_AUTHINFO_UNAVAIL, or the loop is in password mode with the      *)
(* device released; it has not returned to its caller, and do_verify   *)
(* does not run on a released device.                                  *)
KeyRead == opt.no_pthread /\ ph.key # "none"
ToPasswordPrompt ==
  \/ main.pc = "returned" /\ main.ret = "PAM_AUTHINFO_UNAVAIL"
  \/ /\ main.pc \in {"np_loop", "np_prompt"}
     /\ main.in_pw_mode /\ ~main.device_claimed /\ ph.released

C20_KeypressLeadsToPrompt ==
  /\ KeyRead => ToPasswordPrompt
  /\ opt.no_pthread /\ InVerify => ~ph.released /\ data.dev # "NULL"

(* C19: a run of the single-threaded strategy that took in the same    *)
(* external events, in the same order, as a run of the threaded        *)
(* strategy under the same options returns the same PAM result and     *)
(* leaves the same PAM_AUTHTOK.                                        *)
SameEvents == opt.no_pthread /\ ph.other # NoRun /\ ph.events = ph.other.events

C19_StrategiesAgree ==
  main.pc = "done" /\ SameEvents =>
    main.ret = ph.other.ret /\ authtok = ph.other.authtok

(* C21: what do_auth hands back to the login stack is PAM_SUCCESS,     *)
(* PAM_AUTH_ERR or PAM_AUTHINFO_UNAVAIL, under every option set and    *)
(* after every sequence of events.                                     *)
StackResults == {"PAM_SUCCESS", "PAM_AUTH_ERR", "PAM_AUTHINFO_UNAVAIL"}

C21_ResultOneOfThree == main.pc = "done" => main.ret \in StackResults

(* C22: with fp-max-tries-switch-to-pw set, do_auth never returns      *)
(* PAM_MAXTRIES, and a do_verify that returned PAM_MAXTRIES is         *)
(* followed by the password path, under both strategies and with or    *)
(* without no-need-enter.                                              *)
C22_MaxTriesSwitchesToPassword ==
  opt.max_tries_switch_to_pw =>
    /\ main.pc = "done" => main.ret # "PAM_MAXTRIES"
    /\ main.pc = "np_loop" /\ main.ret = "PAM_MAXTRIES" => main.in_pw_mode

(* C23: with the timeout disabled (UINT_MAX), the time left that the   *)
(* wait loop computes is positive, and the loop is not left for the    *)
(* deadline: from the head of the loop do_verify goes on to            *)
(* sd_bus_process, or leaves because the password thread woke it or    *)
(* a signal was read.                                                  *)
C23_NoDeadlineWhenDisabled ==
  [][opt.timeout = UINT_MAX /\ main.pc = "wait" =>
       /\ WaitTime(main.verification_end, clock) > 0
       /\ main'.pc = "after" => data.stop_got_pw]_vars

(* ------------------------------------------------------------------ *)
(* Properties of the device discovery                                 *)
(* ------------------------------------------------------------------ *)
Enrolled(i) == IF listing[i].call = "ok" THEN listing[i].n ELSE 0
Listed == 1..Len(listing)

(* C10: open_device returns the listed device with the most templates  *)
(* enrolled for the user (what the device lists; none when its listing *)
(* fails), the first of them in the order of the list; it returns no   *)
(* device with none enrolled, and none at all when every device has    *)
(* none.                                                               *)
C10_BestDeviceSelected ==
  od.pc = "returned" /\ od.listed =>
    IF \A i \in Listed : Enrolled(i) = 0
      THEN od.path = NoPath
      ELSE /\ od.path \in Listed
           /\ Enrolled(od.path) > 0
           /\ \A j \in Listed : Enrolled(j) <= Enrolled(od.path)
           /\ \A j \in Listed : j < od.path => Enrolled(j) < Enrolled(od.path)

C10_Witness ==
  /\ od.pc = "returned"
  /\ Len(listing) = 3
  /\ Enrolled(1) = 0
  /\ Enrolled(2) > 0
  /\ Enrolled(3) = Enrolled(2)
  /\ od.path = 2

(* C26: in the threaded strategy pthread_cancel is sent to the prompt  *)
(* thread only with no-need-enter set and the fingerprint known to     *)
(* have matched, and the thread has ended when do_auth returns.        *)
C26_CancelOnlyOnSuccess ==
  Threaded =>
    /\ pwt.cancel => opt.no_need_enter /\ flags.fingerprint_success
    /\ main.pc = "done" => pwt.pc = "exited"

(* ------------------------------------------------------------------ *)
(* Properties of the session slot                                     *)
(* ------------------------------------------------------------------ *)
Alive(x) == sd.obj[x].state = "live" /\ sd.obj[x].complete

(* C30: under every interleaving of session_data_get,                  *)
(* session_data_set_new and session_data_unref steps, the pointer a    *)
(* reader takes is NULL or a live, completely written session and      *)
(* never the busy mark; so is every reference a caller holds and the   *)
(* slot's own pointer; the swap back in session_data_get has never     *)
(* failed; and an object is freed only at reference count zero, never  *)
(* while the slot points to it or a caller holds it, and no reference  *)
(* count is changed on freed memory.                                   *)
C30_SlotProtocolSafe ==
  /\ ~sd.failed
  /\ ~sd.touched
  /\ sd.slot \in Sessions => Alive(sd.slot)
  /\ \A t \in Threads :
       /\ sd.th[t].pc \in {"g_inc", "g_back"} =>
            /\ sd.th[t].cur # "invalid"
            /\ sd.th[t].cur \in Sessions => Alive(sd.th[t].cur)
       /\ \A x \in Sessions : sd.th[t].held[x] > 0 => Alive(x)
  /\ \A x \in Sessions :
       /\ sd.obj[x].state = "freed" => sd.obj[x].refcount = 0
       /\ Alive(x) => sd.obj[x].refcount > 0

(* One thread is inside session_data_get with its reference taken and  *)
(* the slot marked busy, while the other has read the busy mark and    *)
(* goes round its loop; an earlier session has been freed.             *)
C30_Witness ==
  \E t, u \in Threads :
    /\ t # u
    /\ sd.th[t].pc = "g_back" /\ sd.th[t].cur \in Sessions
    /\ sd.th[u].pc \in {"g_cas", "s_cas"} /\ sd.th[u].cur = "invalid"
    /\ \E y \in Sessions : sd.obj[y].state = "freed"

(* ------------------------------------------------------------------ *)
(* Properties of the PAM module: the result of an attempt              *)
(* ------------------------------------------------------------------ *)
(* C33: do_verify and do_auth return PAM_SUCCESS only when, in the     *)
(* current cycle and after its VerifyStart was acknowledged, a         *)
(* VerifyStatus with verify-match and done set was dispatched; a match *)
(* without done is no result; and an attempt in which a password was   *)
(* taken, the deadline was enforced, the wake signal was sent or a     *)
(* callback set an error does not end with PAM_SUCCESS.                *)
C33_SuccessOnlyOnMatch ==
  /\ data.verify_started =>
       verify_result(data, StatusMsg("verify-match", FALSE)).result # "verify-match"
  /\ main.pc = "returned" /\ main.ret = "PAM_SUCCESS" =>
       /\ ph.matched
       /\ data.result = "verify-match"
       /\ data.verify_ret = "PAM_INCOMPLETE"
       /\ ~data.timed_out
  /\ main.pc = "done" /\ main.ret = "PAM_SUCCESS" =>
       /\ ph.matched
       /\ data.verify_ret = "PAM_INCOMPLETE"
       /\ ~data.timed_out
       /\ ~data.stop_got_pw
       /\ ~flags.has_recieved_sigusr1
       /\ authtok # "password"

(* do_auth of the threaded strategy has returned PAM_SUCCESS, after a  *)
(* match that was dispatched once VerifyStart had been acknowledged.   *)
C33_Witness ==
  /\ main.pc = "done" /\ main.ret = "PAM_SUCCESS"
  /\ ph.matched /\ ph.starts >= 1 /\ Threaded

(* C39: every attempt is entered with fingerprint_success,             *)
(* fingerprint_finished and has_recieved_sigusr1 false.                *)
C39_FreshFlagsAtEntry == ph.entry = FlagsInit

(* C40: a VerifyStatus dispatched while the VerifyStart of the current *)
(* cycle is not acknowledged changes neither the result nor the        *)
(* acknowledgement, and from the VerifyStart call to the               *)
(* acknowledgement the result is unset, whatever signals of an earlier *)
(* cycle were dispatched in between.                                   *)
C40_StaleStatusIgnored ==
  /\ ~data.verify_started =>
       \A m \in StatusDrawn :
         /\ verify_result(data, m).result = data.result
         /\ ~verify_result(data, m).verify_started
  /\ main.pc \in {"wait", "process", "poll", "after", "stop"} /\ ~data.verify_started =>
       data.result = "NULL"

(* In a second cycle a VerifyStatus has been dispatched, the           *)
(* acknowledgement has not, and the result is unset.                   *)
C40_Witness ==
  /\ main.pc \in {"wait", "process", "poll"}
  /\ ph.starts >= 2 /\ ph.heard
  /\ ~data.verify_started /\ data.result = "NULL"

====
